---- MODULE Spec2Model ----
(***************************************************************************)
(* Verification model of the hydra-security orchestration engine.          *)
(*                                                                         *)
(*   Part I   agent dispatcher   (src/src/orchestrator/dispatcher.ts)      *)
(*   Part II  trigger daemon     (src/src/orchestrator/daemon.ts)          *)
(*   Part III findings aggregator (src/src/orchestrator/aggregator.ts)     *)
(*   Part IV  threat-model store (src/src/orchestrator/aggregator.ts)      *)
(*   Part V   scan cache         (src/src/orchestrator/daemon.ts)          *)
(*   Part VI  adversarial pipeline (src/src/orchestrator/adversarial.ts)   *)
(*   Part VII patch review       (src/unnamed/part_009, patch-pipeline.ts) *)
(*   Part VIII sandbox sessions  (src/src/sandbox/types.ts)                *)
(*   Part IX  diff scan          (src/src/orchestrator/run-scan.ts)        *)
(*   Part X   finding identity   (src/src/agents/scanner/base.ts)          *)
(*   Part XI  cancellation       (src/src/orchestrator/dispatcher.ts)      *)
(*   Part XII patch pipeline     (src/src/orchestrator/patch-pipeline.ts)  *)
(*   Part XIII LLM client        (src/unnamed/part_016)                    *)
(*                                                                         *)
(* JavaScript runs one callback at a time: a synchronous block is never    *)
(* interleaved with another callback, and the microtask queue is drained   *)
(* before the next event (timer, I/O completion, HTTP request) is taken.   *)
(* The actions below follow that discipline.                               *)
(***************************************************************************)
EXTENDS Integers, Sequences, FiniteSets, TLC

\* ------------------------------------------------------------------ bounds
\* Number of agent tasks handed to one dispatchScanners call.
NumTasks == 3
\* Length of a non-empty findings list a task's execute() resolves with.
MaxFindings == 1

\* Run records the daemon retains (MAX_STORED_RUNS, 200 in daemon.ts:45,
\* scaled down so that trimming happens within the bounds).
MAX_STORED_RUNS == 2
\* Triggers accepted in one behaviour of the run-history specification.
MaxRuns == 4
\* Triggers accepted in one behaviour of the request specification.
MaxProbeRuns == 1
\* Largest reading of the wall clock.
MaxClock == 1

\* Longest findings list handed to aggregateFindings.
MaxInputLen == 2

\* Calls of loadOrCreateThreatModel in one behaviour.
NumCalls == 3

\* Entries the scan cache retains (MAX_CACHE_ENTRIES, 5000 in
\* daemon.ts:381, scaled down so that eviction happens within the bounds).
MAX_CACHE_ENTRIES == 2
\* Calls of ScanCache.put in one behaviour.
MaxPuts == 3
\* Largest reading of the clock of the cache.
MaxCacheClock == 1

\* Findings handed to one runAdversarialPipeline call.
NumDebates == 2

\* Hunks of one patch_diff.
MaxHunks == 2

\* Wall-time cap of one session.exec, in clock ticks.
ExecCap == 2

\* destroy calls on one session.
MaxDestroys == 2

\* Paths in options.changedFiles of one diff scan.
MaxGiven == 2

\* Largest reading of the clock of a scan.
MaxScanClock == 2

\* Scanner tasks of one dispatch.
NumScanners == 2

\* Findings pushed by the scanner tasks of one run.
MaxProduced == 2

\* Values of the 16 hex digits of a finding id.
IdSpace == 16

\* Adversarial results handed to one runPatchPipeline call.
NumPatches == 2

\* The red-team confidence from which inferVerdict answers likely.
MinLikely == 70

\* The largest maxRetries of an LlmClient, and the longest fallbackModels.
MaxRetries == 2
MaxFallbacks == 2

\* --------------------------------------------------------------- constants
DEFAULT_MAX_CONCURRENT_AGENTS == 3

Undefined == "undefined"
NoCount == -1

VARIABLES
  \* ---- dispatcher
  pcMain,       \* dispatchScanners: init | loop | awaiting | returned | rejected
  maxConcurrentAgents,
  records,      \* AgentRunRecord per task index (0 records before the call)
  queue,        \* FIFO of task indices not yet started
  running,      \* the Set of task promises not yet removed by their .finally
  mainRace,     \* the promise of the pending Promise.race(running)
  exec,         \* the promise returned by task.execute(), per task
  race,         \* the Promise.race of withTimeout, per task
  timer,        \* the setTimeout handle of withTimeout, per task
  findings,     \* the findings array of the dispatch result
  \* ---- daemon
  pcDaemon,     \* startOrchestratorDaemon: init | listening | refused
  authToken,    \* the configured bearer token
  allowedPaths, \* the canonical allow-list
  runs,         \* the Map of run records: run ids in insertion order
  runRecords,   \* the RunRecord objects, by run id
  microtasks,   \* callbacks queued by queueMicrotask
  now,          \* the wall clock
  lastReq,      \* the last HTTP request (request specification only)
  lastResp,     \* its response (request specification only)
  \* ---- aggregator
  pcAgg,        \* idle | input | aggregated | reaggregated | extended | permuted
  aggIn,        \* the findings array passed to aggregateFindings
  aggPrev,      \* the result of the previous call
  aggOut,       \* the result of the last call
  \* ---- threat-model store
  storeFile,    \* the content of <repo_id>/versions.json, NoFile when absent
  calls,        \* the calls of loadOrCreateThreatModel, by call
  everWritten,  \* every version that fs.writeFile has put in the file
  \* ---- scan cache
  cacheEntries,      \* store.entries, in the order of Object.keys
  cacheNow,     \* Date.now()
  lastPut,      \* per (scanner, path, content): the last put made for it
                \* and not invalidated or evicted since
  putCount,     \* the number of puts made
  lastLookup,  \* the arguments and the result of the lookup just made
  \* ---- adversarial pipeline
  advPc,  \* runAdversarialPipeline: idle | awaiting | spinning | returned | filtered
  advMax,  \* maxConcurrent
  advIn,  \* the findings passed in
  advQueue,  \* queue, as indices of advIn
  advRunning,  \* running, as indices of advIn
  debates,  \* the calls of processOneFinding, by index
  advResults,  \* results
  advFiltered,  \* what filterByVerdict returned
  \* ---- patch review
  patchPc,  \* processOne: idle | patching | reviewing | retesting | done | rejected
  patchCase,  \* the adversarial result and options of the call
  proposal,  \* what runPatchAgent returned
  applied,  \* what applyPatchToSource returned
  review,  \* the PatchReview
  patchStatus,  \* PatchResult.status
  \* ---- sandbox sessions
  sbPc,  \* the call: idle | probing | inspecting | creating | writing | executing | destroying | returned | threw
  sbCaller,  \* red (tryExploitInSandbox) or review (retestExploitInSandbox)
  sbSession,  \* none | live | destroyed
  sbWrites,  \* writeFile calls still to make
  sbElapsed,  \* time since docker exec started
  sbHitCap,  \* the wall-time cap of the exec elapsed
  sbExec,  \* the ExecResult of session.exec
  sbPending,  \* how the try block was left: return | throw
  sbDestroys,  \* completed destroy calls
  sbRaised,  \* the last destroy raised
  sbContainer,  \* the docker container: none | running | removed
  sbResult,  \* what the call returns
  \* ---- diff scan
  scanPc,  \* runDiffScan: idle | normalizing | resolving | loading | dispatching | returned | threw
  scanGiven,  \* options.changedFiles still to stat
  scanChanged,  \* resolvedDiff.changedFiles
  scanNow,  \* the clock
  scanStarted,  \* started
  scanThreat,  \* what loadOrCreateThreatModel returned
  scanTasks,  \* scanner tasks dispatched
  scanResult,  \* the ScanResult
  scanGit,  \* none | failed: a git invocation of the scan failed
  \* ---- finding identity
  produced,  \* the findings the scanner tasks have pushed
  \* ---- cancellation
  cancelSignalled,  \* the orchestrator has signalled a cancel
  queueAtCancel,  \* the queue of the dispatcher at the signal
  \* ---- daemon startup
  startedWith,  \* the options startOrchestratorDaemon was called with
  \* ---- patch pipeline
  ppPc,  \* runPatchPipeline: idle | awaiting | spinning | returned
  ppMax,  \* maxConcurrent
  ppSkip,  \* skipReview
  ppIn,  \* adversarialResults
  ppQueue,  \* queue, as places in ppIn
  ppRunning,  \* running, as places in ppIn
  ppStage,  \* per result: none | patching | reviewing | done | thrown
  ppResults,  \* results
  \* ---- the judge on its own
  judgePc,  \* runJudgeAgent: idle | asked | returned
  judgeRed,  \* context.redTeamAssessment
  judgeBlue,  \* context.blueTeamAssessment
  judgeReply,  \* response.content
  judgeVerdict,  \* what runJudgeAgent returned
  \* ---- LLM client
  llmPc,  \* createMessage: idle | fetching | sleeping | returned | threw
  llmMaxRetries,  \* this.maxRetries
  llmModel,  \* request.model
  llmFallbacks,  \* this.fallbackModels
  llmModels,  \* modelsToTry
  llmAt,  \* the place in modelsToTry of the model being tried
  llmAttempt,  \* attempt
  llmLast,  \* how the latest fetch ended
  llmSent,  \* the model of every request sent, in order
  llmThrown  \* what createMessage threw

dvars == <<pcMain, maxConcurrentAgents, records, queue, running, mainRace,
           exec, race, timer, findings>>

mvars == <<pcDaemon, authToken, allowedPaths, runs, runRecords, microtasks,
           now, lastReq, lastResp>>

avars == <<pcAgg, aggIn, aggPrev, aggOut>>

tvars == <<storeFile, calls, everWritten>>

cvars == <<cacheEntries, cacheNow, lastPut, putCount, lastLookup>>

pvars == <<advPc, advMax, advIn, advQueue, advRunning, debates, advResults, advFiltered>>

rvars == <<patchPc, patchCase, proposal, applied, review, patchStatus>>

svars == <<sbPc, sbCaller, sbSession, sbWrites, sbElapsed, sbHitCap, sbExec, sbPending, sbDestroys, sbRaised,
          sbContainer, sbResult>>

xvars == <<scanPc, scanGiven, scanChanged, scanNow, scanStarted, scanThreat, scanTasks, scanResult, scanGit>>

fvars == <<produced>>

gvars == <<cancelSignalled, queueAtCancel>>

hvars == <<startedWith>>

qvars == <<ppPc, ppMax, ppSkip, ppIn, ppQueue, ppRunning, ppStage, ppResults>>

jvars == <<judgePc, judgeRed, judgeBlue, judgeReply, judgeVerdict>>

lvars == <<llmPc, llmMaxRetries, llmModel, llmFallbacks, llmModels, llmAt, llmAttempt, llmLast, llmSent, llmThrown>>

vars == <<dvars, mvars, avars, tvars, cvars, pvars, rvars, svars, xvars, fvars, gvars, hvars, qvars, jvars, lvars>>

\* What the actions of one part leave alone.
notDispatch == <<mvars, avars, tvars, cvars, pvars, rvars, svars, xvars, fvars, gvars, hvars, qvars, jvars, lvars>>
notDaemon == <<dvars, avars, tvars, cvars, pvars, rvars, svars, xvars, fvars, gvars, hvars, qvars, jvars, lvars>>
notAggregate == <<dvars, mvars, tvars, cvars, pvars, rvars, svars, xvars, fvars, gvars, hvars, qvars, jvars, lvars>>
notThreat == <<dvars, mvars, avars, cvars, pvars, rvars, svars, xvars, fvars, gvars, hvars, qvars, jvars, lvars>>
notCache == <<dvars, mvars, avars, tvars, pvars, rvars, svars, xvars, fvars, gvars, hvars, qvars, jvars, lvars>>
notAdversarial == <<dvars, mvars, avars, tvars, cvars, rvars, svars, xvars, fvars, gvars, hvars, qvars, jvars, lvars>>
notPatch == <<dvars, mvars, avars, tvars, cvars, pvars, svars, xvars, fvars, gvars, hvars, qvars, jvars, lvars>>
notSandbox == <<dvars, mvars, avars, tvars, cvars, pvars, rvars, xvars, fvars, gvars, hvars, qvars, jvars, lvars>>
notScan == <<dvars, mvars, avars, tvars, cvars, pvars, rvars, svars, fvars, gvars, hvars, qvars, jvars, lvars>>
notFindings == <<dvars, mvars, avars, tvars, cvars, pvars, rvars, svars, xvars, gvars, hvars, qvars, jvars, lvars>>
notCancel == <<dvars, mvars, avars, tvars, cvars, pvars, rvars, svars, xvars, fvars, hvars, qvars, jvars, lvars>>
notStartup == <<dvars, mvars, avars, tvars, cvars, pvars, rvars, svars, xvars, fvars, gvars, qvars, jvars, lvars>>
notDaemonStart == <<dvars, avars, tvars, cvars, pvars, rvars, svars, xvars, fvars, gvars, qvars, jvars, lvars>>
notPatchPipeline == <<dvars, mvars, avars, tvars, cvars, pvars, rvars, svars, xvars, fvars, gvars, hvars, jvars, lvars>>
notJudge == <<dvars, mvars, avars, tvars, cvars, pvars, rvars, svars, xvars, fvars, gvars, hvars, qvars, lvars>>
notLlm == <<dvars, mvars, avars, tvars, cvars, pvars, rvars, svars, xvars, fvars, gvars, hvars, qvars, jvars>>

Tasks == 1..NumTasks

\* ------------------------------------------------------------ environment
\* A raw environment value: unset, the empty string, a string Number() maps
\* to NaN, "Infinity", or a decimal literal with the rational value num/den.
Num(n, d) == [kind |-> "num", num |-> n, den |-> d]
Raw(k) == [kind |-> k, num |-> 0, den |-> 1]

EnvValues ==
  { Raw("unset"), Raw("empty"), Raw("nan"), Raw("inf"),
    Num(0, 1), Num(-1, 1), Num(1, 2), Num(1, 1), Num(2, 1), Num(5, 2) }

\* Math.floor of num/den, den > 0.
Floor(n, d) == n \div d

readPositiveIntFromEnv(raw, fallback) ==
  IF raw.kind \in {"unset", "empty"} THEN fallback
  ELSE IF raw.kind \in {"nan", "inf"} \/ raw.num <= 0 THEN fallback
  ELSE Floor(raw.num, raw.den)

\* ------------------------------------------------------------- task values
\* A value thrown by execute(): an Error with a message, or something else.
Thrown == { [isError |-> TRUE, message |-> "boom"],
            [isError |-> FALSE, message |-> Undefined] }
NoThrown == [isError |-> FALSE, message |-> Undefined]
AgentTimeoutError == [isError |-> TRUE, message |-> "Agent timed out"]

\* A promise: not created, pending, fulfilled with n findings, or rejected.
Promise(k, n, t) == [kind |-> k, n |-> n, thrown |-> t]
Idle == Promise("idle", 0, NoThrown)
Pending == Promise("pending", 0, NoThrown)
Fulfilled(n) == Promise("value", n, NoThrown)
Rejected(t) == Promise("error", 0, t)
TimedOut == Promise("timeout", 0, AgentTimeoutError)

Settlements ==
  { Fulfilled(0), Fulfilled(MaxFindings) } \cup { Rejected(t) : t \in Thrown }

Record(s, c, e) == [status |-> s, finding_count |-> c, error |-> e]

TerminalStatus == {"completed", "failed", "timed_out"}

\* ---------------------------------------------------------------- helpers
RaceOutcome_LastWins(current, incoming) == incoming

\* Promise.race: the first settlement wins, later ones are ignored.
RaceOutcome(current, incoming) ==
  IF current.kind = "pending" THEN incoming ELSE current

\* The findings of task i, in the order execute() returned them.
TaskFindings(i, n) == [k \in 1..n |-> [task |-> i, k |-> k]]

\* try-branch of runTask.
OnFulfilled(rec, n) == Record("completed", n, rec.error)

CatchStatus_NoTimeout(outcome) == "failed"

\* catch-branch of runTask: error instanceof AgentTimeoutError.
CatchStatus(outcome) ==
  IF outcome.kind = "timeout" THEN "timed_out" ELSE "failed"

CatchError_Unknown(outcome) == "Unknown agent error"

\* catch-branch of runTask: record.error.
CatchError(outcome) ==
  IF outcome.thrown.isError THEN outcome.thrown.message
  ELSE "Unknown agent error"

OnRejected(rec, outcome) ==
  Record(CatchStatus(outcome), rec.finding_count, CatchError(outcome))

\* The try/catch/finally of runTask's async body handles every outcome of
\* withTimeout, so the task promise is fulfilled whatever the outcome.
BodySettles(outcome) == "fulfilled"

CanStart_OffByOne(q, r, max) == Len(q) > 0 /\ Cardinality(r) <= max

\* Inner loop condition of dispatchScanners.
CanStart(q, r, max) == Len(q) > 0 /\ Cardinality(r) < max

\* ------------------------------------------------------------------- Init
DispatchIdle ==
  /\ pcMain = "init"
  /\ maxConcurrentAgents = 0
  /\ records = << >>
  /\ queue = << >>
  /\ running = {}
  /\ mainRace = "none"
  /\ exec = [i \in Tasks |-> Idle]
  /\ race = [i \in Tasks |-> Idle]
  /\ timer = [i \in Tasks |-> "unset"]
  /\ findings = << >>

\* ---------------------------------------------------------------- actions
\* dispatchScanners up to the main loop: configuration, records, queue.
DispatchStart ==
  /\ UNCHANGED notDispatch
  /\ pcMain = "init"
  /\ \E raw \in EnvValues :
       maxConcurrentAgents' =
         readPositiveIntFromEnv(raw, DEFAULT_MAX_CONCURRENT_AGENTS)
  /\ records' = [i \in Tasks |-> Record("queued", NoCount, Undefined)]
  /\ queue' = [i \in Tasks |-> i]
  /\ pcMain' = "loop"
  /\ UNCHANGED <<running, mainRace, exec, race, timer, findings>>

\* runTask(queue.shift()): the async body runs synchronously up to the
\* await of withTimeout, which calls execute() and arms the timer.
RunTask ==
  /\ UNCHANGED notDispatch
  /\ pcMain = "loop"
  /\ CanStart(queue, running, maxConcurrentAgents)
  /\ LET i == Head(queue) IN
       /\ queue' = Tail(queue)
       /\ records' = [records EXCEPT ![i].status = "running"]
       /\ exec' = [exec EXCEPT ![i] = Pending]
       /\ race' = [race EXCEPT ![i] = Pending]
       /\ timer' = [timer EXCEPT ![i] = "armed"]
       /\ running' = running \cup {i}
  /\ UNCHANGED <<pcMain, maxConcurrentAgents, mainRace, findings>>

\* await Promise.race(running)
AwaitRace ==
  /\ UNCHANGED notDispatch
  /\ pcMain = "loop"
  /\ ~CanStart(queue, running, maxConcurrentAgents)
  /\ Cardinality(running) > 0
  /\ pcMain' = "awaiting"
  /\ mainRace' = "pending"
  /\ UNCHANGED <<maxConcurrentAgents, records, queue, running, exec, race,
                 timer, findings>>

\* The outer loop goes round without starting or awaiting anything.
Spinning ==
  /\ pcMain = "loop"
  /\ ~CanStart(queue, running, maxConcurrentAgents)
  /\ Cardinality(running) = 0
  /\ Len(queue) > 0

Spin ==
  /\ Spinning
  /\ UNCHANGED vars

\* return { findings, agent_runs: records }
Return ==
  /\ UNCHANGED notDispatch
  /\ pcMain = "loop"
  /\ Len(queue) = 0
  /\ Cardinality(running) = 0
  /\ pcMain' = "returned"
  /\ UNCHANGED <<maxConcurrentAgents, records, queue, running, mainRace,
                 exec, race, timer, findings>>

\* The raced promise has settled: the main loop continues, or
\* dispatchScanners rejects if the promise that settled first was rejected.
Resume ==
  /\ UNCHANGED notDispatch
  /\ pcMain = "awaiting"
  /\ mainRace \in {"fulfilled", "rejected"}
  /\ pcMain' = IF mainRace = "rejected" THEN "rejected" ELSE "loop"
  /\ mainRace' = "none"
  /\ UNCHANGED <<maxConcurrentAgents, records, queue, running, exec, race,
                 timer, findings>>

\* The continuation of runTask's async body after withTimeout settled with
\* `outcome`; withTimeout's finally has cleared the timer.
Continue(i, outcome) ==
  /\ records' = [records EXCEPT ![i] =
       IF outcome.kind = "value" THEN OnFulfilled(@, outcome.n)
       ELSE OnRejected(@, outcome)]
  /\ findings' =
       IF outcome.kind = "value" THEN findings \o TaskFindings(i, outcome.n)
       ELSE findings

\* The promise of task.execute() settles (on time or late).
ExecSettles(i, s) ==
  /\ UNCHANGED notDispatch
  /\ pcMain # "loop"
  /\ exec[i].kind = "pending"
  /\ exec' = [exec EXCEPT ![i] = s]
  /\ LET won == RaceOutcome(race[i], s) IN
       /\ race' = [race EXCEPT ![i] = won]
       /\ IF won # race[i]
            THEN /\ Continue(i, won)
                 /\ timer' = [timer EXCEPT ![i] =
                      IF @ = "armed" THEN "cleared" ELSE @]
            ELSE UNCHANGED <<records, findings, timer>>
  /\ UNCHANGED <<pcMain, maxConcurrentAgents, queue, running, mainRace>>

\* The setTimeout callback of withTimeout rejects with AgentTimeoutError.
TimerFires(i) ==
  /\ UNCHANGED notDispatch
  /\ pcMain # "loop"
  /\ timer[i] = "armed"
  /\ timer' = [timer EXCEPT ![i] = "fired"]
  /\ LET won == RaceOutcome(race[i], TimedOut) IN
       /\ race' = [race EXCEPT ![i] = won]
       /\ IF won # race[i]
            THEN Continue(i, won)
            ELSE UNCHANGED <<records, findings>>
  /\ UNCHANGED <<pcMain, maxConcurrentAgents, queue, running, mainRace, exec>>

\* .finally(() => running.delete(taskPromise)): the task promise settles,
\* and with it the pending Promise.race(running) unless it has settled.
Finalize(i) ==
  /\ UNCHANGED notDispatch
  /\ pcMain # "loop"
  /\ i \in running
  /\ race[i].kind \notin {"idle", "pending"}
  /\ running' = running \ {i}
  /\ mainRace' = IF mainRace = "pending" THEN BodySettles(race[i]) ELSE mainRace
  /\ UNCHANGED <<pcMain, maxConcurrentAgents, records, queue, exec, race,
                 timer, findings>>

\* ======================================================================
\* Part II: trigger daemon (src/src/orchestrator/daemon.ts)
\* ======================================================================

\* ---------------------------------------------------------------- strings
\* A string is a sequence of one-character strings.
SEP == "/"
Undef == <<"undefined">>
NoPaths == <<Undef>>

StartsWith(s, p) == Len(p) <= Len(s) /\ SubSeq(s, 1, Len(p)) = p

\* String.prototype.slice(n)
Slice(s, n) == SubSeq(s, n + 1, Len(s))

RECURSIVE TrimStart(_)
TrimStart(s) ==
  IF s # << >> /\ Head(s) = " " THEN TrimStart(Tail(s)) ELSE s

RECURSIVE TrimEnd(_)
TrimEnd(s) ==
  IF s # << >> /\ s[Len(s)] = " " THEN TrimEnd(SubSeq(s, 1, Len(s) - 1)) ELSE s

\* String.prototype.trim()
Trim(s) == TrimEnd(TrimStart(s))

\* s.split("/"): the pieces between separators, empty pieces included.
RECURSIVE SplitFrom(_, _, _)
SplitFrom(s, cur, acc) ==
  IF s = << >> THEN Append(acc, cur)
  ELSE IF Head(s) = SEP THEN SplitFrom(Tail(s), << >>, Append(acc, cur))
  ELSE SplitFrom(Tail(s), Append(cur, Head(s)), acc)

Split(s) == SplitFrom(s, << >>, << >>)

\* Lexical normalisation of path.resolve: "" and "." dropped, ".." pops.
RECURSIVE NormalizeParts(_, _)
NormalizeParts(parts, acc) ==
  IF parts = << >> THEN acc
  ELSE LET h == Head(parts) IN
    IF h = << >> \/ h = <<".">> THEN NormalizeParts(Tail(parts), acc)
    ELSE IF h = <<".", ".">>
      THEN NormalizeParts(Tail(parts),
             IF acc = << >> THEN acc ELSE SubSeq(acc, 1, Len(acc) - 1))
    ELSE NormalizeParts(Tail(parts), Append(acc, h))

\* The absolute path string of a list of components.
RECURSIVE JoinParts(_)
JoinParts(parts) ==
  IF parts = << >> THEN << >>
  ELSE <<SEP>> \o Head(parts) \o JoinParts(Tail(parts))

ToPath(parts) == IF parts = << >> THEN <<SEP>> ELSE JoinParts(parts)

\* The process working directory.
Cwd == <<"/", "a">>

\* path.resolve(input) for a string input.
PathResolve(input) ==
  LET abs == IF input # << >> /\ Head(input) = SEP THEN input
             ELSE Cwd \o <<SEP>> \o input
  IN ToPath(NormalizeParts(Split(abs), << >>))

\* ------------------------------------------------------------ file system
\* /            directory
\* /a           directory       /a/b  directory     /a/f  regular file
\* /a/l         symlink to /c   /ab   directory     /c    directory
\* /k           symlink to /a/b
Dirs == { << >>, << <<"a">> >>, << <<"a">>, <<"b">> >>, << <<"a", "b">> >>,
          << <<"c">> >> }
Files == { << <<"a">>, <<"f">> >> }
Links == { << <<"a">>, <<"l">> >>, << <<"k">> >> }
LinkTarget(p) ==
  IF p = << <<"a">>, <<"l">> >> THEN << <<"c">> >> ELSE << <<"a">>, <<"b">> >>

Fail == [ok |-> FALSE, path |-> Undef]
Ok(pathStr) == [ok |-> TRUE, path |-> pathStr]

\* fs.realpath: walk the components, following symlinks.
RECURSIVE RealpathFrom(_, _)
RealpathFrom(cur, rest) ==
  IF rest = << >> THEN Ok(ToPath(cur))
  ELSE LET next == Append(cur, Head(rest)) IN
    IF next \in Links THEN RealpathFrom(LinkTarget(next), Tail(rest))
    ELSE IF next \in Dirs THEN RealpathFrom(next, Tail(rest))
    ELSE IF next \in Files /\ Tail(rest) = << >> THEN Ok(ToPath(next))
    ELSE Fail

Realpath(pathStr) == RealpathFrom(<< >>, NormalizeParts(Split(pathStr), << >>))

\* fs.stat(canonical).isDirectory()
IsDirectory(pathStr) == NormalizeParts(Split(pathStr), << >>) \in Dirs

\* A JSON value used as a path: absent, a string, or a number.
StrVal(str) == [type |-> "string", str |-> str]
NumVal == [type |-> "number", str |-> Undef]
UndefVal == [type |-> "undefined", str |-> Undef]

\* resolveDirectoryPath: path.resolve throws on a non-string, realpath on a
\* missing path, and a non-directory is refused.
resolveDirectoryPath(input) ==
  IF input.type # "string" THEN Fail
  ELSE LET canonical == Realpath(PathResolve(input.str)) IN
    IF ~canonical.ok THEN Fail
    ELSE IF ~IsDirectory(canonical.path) THEN Fail
    ELSE canonical

validateTargetPath(input) == resolveDirectoryPath(input)

isPathAllowed_NoSeparator(targetPath, allowed) ==
  IF allowed = NoPaths \/ Len(allowed) = 0 THEN TRUE
  ELSE \E k \in 1..Len(allowed) : StartsWith(targetPath, allowed[k])

isPathAllowed(targetPath, allowed) ==
  IF allowed = NoPaths \/ Len(allowed) = 0 THEN TRUE
  ELSE \E k \in 1..Len(allowed) :
         \/ targetPath = allowed[k]
         \/ StartsWith(targetPath, allowed[k] \o <<SEP>>)

\* ---------------------------------------------------------- authorization
CharCode(c) ==
  CASE c = "s" -> 115 [] c = "t" -> 116 [] c = "u" -> 117 [] c = "x" -> 120
    [] OTHER -> 0

RECURSIVE BitXor(_, _)
BitXor(a, b) ==
  IF a = 0 /\ b = 0 THEN 0
  ELSE 2 * BitXor(a \div 2, b \div 2) + (((a % 2) + (b % 2)) % 2)

RECURSIVE BitOr(_, _)
BitOr(a, b) ==
  IF a = 0 /\ b = 0 THEN 0
  ELSE 2 * BitOr(a \div 2, b \div 2) + (IF (a % 2) + (b % 2) > 0 THEN 1 ELSE 0)

\* The loop of checkAuth: mismatch |= provided.charCodeAt(i) ^ token.charCodeAt(i)
RECURSIVE Mismatch(_, _, _, _)
Mismatch(provided, token, i, acc) ==
  IF i > Len(provided) THEN acc
  ELSE Mismatch(provided, token, i + 1,
         BitOr(acc, BitXor(CharCode(provided[i]), CharCode(token[i]))))

Bearer == <<"B", "e", "a", "r", "e", "r", " ">>

\* Without the length test a shorter `provided` is compared on its own length.
checkAuth_NoLengthCheck(header, token) ==
  IF token = Undef \/ token = << >> THEN TRUE
  ELSE IF header = Undef \/ ~StartsWith(header, Bearer) THEN FALSE
  ELSE LET provided == Slice(header, Len(Bearer)) IN
    IF Len(provided) > Len(token) THEN FALSE
    ELSE Mismatch(provided, token, 1, 0) = 0

checkAuth(header, token) ==
  IF token = Undef \/ token = << >> THEN TRUE
  ELSE IF header = Undef \/ ~StartsWith(header, Bearer) THEN FALSE
  ELSE LET provided == Slice(header, Len(Bearer)) IN
    IF Len(provided) # Len(token) THEN FALSE
    ELSE Mismatch(provided, token, 1, 0) = 0

\* ----------------------------------------------------------------- startup
Token == <<"s", "t">>

Options(t, a, i) == [authToken |-> t, allowedPaths |-> a, allowInsecureDefaults |-> i]

\* entry.trim(), then entries of length 0 dropped.
RECURSIVE NormalizeEntries(_)
NormalizeEntries(entries) ==
  IF entries = << >> THEN << >>
  ELSE LET e == Trim(Head(entries)) IN
    IF Len(e) > 0 THEN <<e>> \o NormalizeEntries(Tail(entries))
    ELSE NormalizeEntries(Tail(entries))

RefusesDefaults_TokenOnly(allowInsecureDefaults, noToken, noAllowedPaths) ==
  ~allowInsecureDefaults /\ noToken

\* !allowInsecureDefaults && (!authToken || !allowedPaths)
RefusesDefaults(allowInsecureDefaults, noToken, noAllowedPaths) ==
  ~allowInsecureDefaults /\ (noToken \/ noAllowedPaths)

\* The result of startOrchestratorDaemon(options): the state it listens in,
\* or a refusal (the insecure-defaults error, or a rejected allow-list entry).
Startup(options) ==
  LET normalized == IF options.allowedPaths = NoPaths THEN NoPaths
                    ELSE NormalizeEntries(options.allowedPaths)
      resolved == IF normalized = NoPaths \/ Len(normalized) = 0 THEN << >>
                  ELSE [k \in 1..Len(normalized) |->
                          resolveDirectoryPath(StrVal(normalized[k]))]
      allowed == IF resolved = << >> THEN NoPaths
                 ELSE [k \in 1..Len(resolved) |-> resolved[k].path]
      noToken == options.authToken = Undef \/ options.authToken = << >>
  IN IF \E k \in 1..Len(resolved) : ~resolved[k].ok
       THEN [pc |-> "refused", authToken |-> Undef, allowedPaths |-> NoPaths]
     ELSE IF RefusesDefaults(options.allowInsecureDefaults, noToken, allowed = NoPaths)
       THEN [pc |-> "refused", authToken |-> Undef, allowedPaths |-> NoPaths]
     ELSE [pc |-> "listening", authToken |-> options.authToken,
           allowedPaths |-> allowed]

\* Before startOrchestratorDaemon is called.
StartupIdle == startedWith = Options(Undef, NoPaths, FALSE)

\* --------------------------------------------------------------- requests
Payload(tp, m, b, h, c) ==
  [target_path |-> tp, mode |-> m, base_ref |-> b, head_ref |-> h,
   changed_files |-> c]
NoPayload == Payload(UndefVal, "undefined", "undefined", "undefined", "undefined")

\* A request body: over 1 MiB, not JSON, empty, the JSON value null, or a
\* JSON object.
Body(k, p) == [kind |-> k, payload |-> p]
Json(p) == Body("json", p)

Request(m, r, id, h, b) ==
  [method |-> m, route |-> r, runId |-> id, authorization |-> h, body |-> b]
NoRequest == Request("none", "none", 0, Undef, Body("empty", NoPayload))

Response(st, e, id, list) ==
  [status |-> st, error |-> e, run_id |-> id, runs |-> list]
NoResponse == Response(0, "none", 0, << >>)

\* readJsonBody and the validation of handleTrigger, up to the run record:
\* the rejection, or the canonical target and the mode of the new record.
Rejection(st, e) == [ok |-> FALSE, status |-> st, error |-> e,
                     target_path |-> Undef, mode |-> "none"]

Validate(body, allowed) ==
  IF body.kind = "too_large" THEN Rejection(413, "request_too_large")
  ELSE IF body.kind = "invalid_json" THEN Rejection(400, "invalid_json")
  ELSE LET payload == IF body.kind = "json" THEN body.payload ELSE NoPayload
           mode == IF payload.mode = "undefined" THEN "full" ELSE payload.mode
           target == validateTargetPath(payload.target_path)
  IN
    IF payload.target_path.type = "undefined"
         \/ (payload.target_path.type = "string" /\ payload.target_path.str = << >>)
      THEN Rejection(400, "missing_target_path")
    ELSE IF mode # "full" /\ mode # "diff" THEN Rejection(400, "invalid_mode")
    ELSE IF payload.head_ref # "undefined" /\ payload.base_ref = "undefined"
      THEN Rejection(400, "head_ref_requires_base_ref")
    ELSE IF payload.changed_files \notin {"undefined", "zero", "array"}
      THEN Rejection(400, "changed_files_must_be_array")
    ELSE IF payload.changed_files = "zero"
      THEN Rejection(0, "handler_threw")
    ELSE IF ~target.ok THEN Rejection(400, "invalid_target_path")
    ELSE IF ~isPathAllowed(target.path, allowed)
      THEN [ok |-> FALSE, status |-> 403, error |-> "path_not_allowed",
            target_path |-> target.path, mode |-> mode]
    ELSE [ok |-> TRUE, status |-> 202, error |-> "none",
          target_path |-> target.path, mode |-> mode]

\* ------------------------------------------------------------ run records
RunRecord(tp, m, st, c, e, r) ==
  [target_path |-> tp, mode |-> m, status |-> st, created_at |-> c,
   error |-> e, result |-> r]

RunIds == DOMAIN runRecords
nextId == Cardinality(RunIds) + 1

\* [...runs.values()].sort(by created_at ascending): a stable insertion sort
\* of the ids in Map order.
RECURSIVE InsertByCreated(_, _, _)
InsertByCreated(sorted, id, recs) ==
  IF sorted = << >> THEN <<id>>
  ELSE IF recs[id].created_at < recs[Head(sorted)].created_at
    THEN <<id>> \o sorted
  ELSE <<Head(sorted)>> \o InsertByCreated(Tail(sorted), id, recs)

RECURSIVE SortByCreated(_, _)
SortByCreated(ids, recs) ==
  IF ids = << >> THEN << >>
  ELSE InsertByCreated(SortByCreated(SubSeq(ids, 1, Len(ids) - 1), recs),
                       ids[Len(ids)], recs)

RECURSIVE Without(_, _)
Without(ids, gone) ==
  IF ids = << >> THEN << >>
  ELSE IF Head(ids) \in gone THEN Without(Tail(ids), gone)
  ELSE <<Head(ids)>> \o Without(Tail(ids), gone)

SeqRange(q) == {q[k] : k \in 1..Len(q)}

trimRunHistory_KeepsOneMore(ids, recs) ==
  IF Len(ids) <= MAX_STORED_RUNS + 1 THEN ids
  ELSE LET ordered == SortByCreated(ids, recs)
           removeCount == Len(ids) - (MAX_STORED_RUNS + 1)
       IN Without(ids, SeqRange(SubSeq(ordered, 1, removeCount)))

trimRunHistory(ids, recs) ==
  IF Len(ids) <= MAX_STORED_RUNS THEN ids
  ELSE LET ordered == SortByCreated(ids, recs)
           removeCount == Len(ids) - MAX_STORED_RUNS
       IN Without(ids, SeqRange(SubSeq(ordered, 1, removeCount)))

\* handleListRuns: the ids of the stored runs, newest created_at first.
RECURSIVE InsertByCreatedDesc(_, _, _)
InsertByCreatedDesc(sorted, id, recs) ==
  IF sorted = << >> THEN <<id>>
  ELSE IF recs[id].created_at > recs[Head(sorted)].created_at
    THEN <<id>> \o sorted
  ELSE <<Head(sorted)>> \o InsertByCreatedDesc(Tail(sorted), id, recs)

RECURSIVE SortByCreatedDesc(_, _)
SortByCreatedDesc(ids, recs) ==
  IF ids = << >> THEN << >>
  ELSE InsertByCreatedDesc(SortByCreatedDesc(SubSeq(ids, 1, Len(ids) - 1), recs),
                           ids[Len(ids)], recs)

handleListRuns(ids, recs) ==
  LET ordered == SortByCreatedDesc(ids, recs)
  IN [k \in 1..Len(ordered) |-> [id |-> ordered[k], record |-> recs[ordered[k]]]]

\* ------------------------------------------------------------------- Init
DaemonIdle ==
  /\ pcDaemon = "init"
  /\ authToken = Undef
  /\ allowedPaths = NoPaths
  /\ runs = << >>
  /\ runRecords = << >>
  /\ microtasks = << >>
  /\ now = 0
  /\ lastReq = NoRequest
  /\ lastResp = NoResponse

\* queueMicrotask: a queued callback runs before the next request, timer or
\* I/O completion is taken.
EventLoopIdle(queued) == queued = << >> /\ ~Spinning

\* ---------------------------------------------------------------- actions
\* startOrchestratorDaemon(options)
StartDaemon(options) ==
  /\ pcDaemon = "init"
  /\ LET started == Startup(options) IN
       /\ pcDaemon' = started.pc
       /\ authToken' = started.authToken
       /\ allowedPaths' = started.allowedPaths
  /\ startedWith' = options
  /\ UNCHANGED <<runs, runRecords, microtasks, now, lastReq, lastResp>>
  /\ UNCHANGED notDaemonStart

\* The wall clock advances.
Tick ==
  /\ pcDaemon = "listening"
  /\ EventLoopIdle(microtasks)
  /\ now < MaxClock
  /\ now' = now + 1
  /\ UNCHANGED <<pcDaemon, authToken, allowedPaths, runs, runRecords,
                 microtasks, lastReq, lastResp>>
  /\ UNCHANGED notDaemon

\* handleTrigger after validation: store the queued record, trim, schedule
\* executeRun in a microtask, answer 202.
AcceptTrigger(v) ==
  LET id == nextId
      record == RunRecord(v.target_path, v.mode, "queued", now, "undefined", FALSE)
      stored == [k \in RunIds \cup {id} |->
                   IF k = id THEN record ELSE runRecords[k]]
  IN /\ runRecords' = stored
     /\ runs' = trimRunHistory(Append(Without(runs, {id}), id), stored)
     /\ microtasks' = Append(microtasks, id)

\* The branch of the server callback that answers `req`.
Route(req) ==
  IF req.method = "GET" /\ req.route = "healthz" THEN "healthz"
  ELSE IF ~checkAuth(req.authorization, authToken) THEN "unauthorized"
  ELSE IF req.method = "GET" /\ req.route = "runs" THEN "list"
  ELSE IF req.method = "GET" /\ req.route = "run" THEN "get"
  ELSE IF req.method = "POST" /\ req.route = "trigger" THEN "trigger"
  ELSE "not_found"

StoresRun_BeforePathCheck(v) == v.ok \/ v.error = "path_not_allowed"

\* handleTrigger reaches runs.set only when no validation has returned.
StoresRun(v) == v.ok

\* handleGetRun
handleGetRun(runId) ==
  IF runId = 0 \/ runId \notin SeqRange(runs)
    THEN Response(404, "not_found", 0, << >>)
    ELSE Response(200, "none", runId, << >>)

\* The response written to `req`.
Respond(req) ==
  LET route == Route(req)
      v == Validate(req.body, allowedPaths)
  IN CASE route = "healthz" -> Response(200, "none", 0, << >>)
       [] route = "unauthorized" -> Response(401, "unauthorized", 0, << >>)
       [] route = "list" ->
            LET listed == handleListRuns(runs, runRecords)
            IN Response(200, "none", 0, [k \in 1..Len(listed) |-> listed[k].id])
       [] route = "get" -> handleGetRun(req.runId)
       [] route = "trigger" ->
            IF v.ok THEN Response(202, "none", nextId, << >>)
            ELSE Response(v.status, v.error, 0, << >>)
       [] OTHER -> Response(404, "not_found", 0, << >>)

\* handleTrigger throws outside its try blocks and the promise of the server
\* callback is rejected with no handler: the runtime either ends the process
\* or reports the rejection and carries on.
UnhandledRejection == { "crashed", "listening" }

Throws(req) ==
  Route(req) = "trigger" /\ Validate(req.body, allowedPaths).error = "handler_threw"

\* One HTTP request, handled by the callback given to createServer. `limit`
\* bounds the triggers a behaviour accepts; `traced` keeps the request and
\* its response as history.
HandleRequest(req, limit, traced) ==
  /\ pcDaemon = "listening"
  /\ EventLoopIdle(microtasks)
  /\ LET v == Validate(req.body, allowedPaths) IN
       IF Route(req) = "trigger" /\ StoresRun(v)
         THEN /\ nextId <= limit
              /\ AcceptTrigger(v)
         ELSE UNCHANGED <<runs, runRecords, microtasks>>
  /\ lastReq' = IF traced THEN req ELSE lastReq
  /\ lastResp' = IF traced THEN Respond(req) ELSE lastResp
  /\ pcDaemon' \in IF Throws(req) THEN UnhandledRejection ELSE {pcDaemon}
  /\ UNCHANGED <<authToken, allowedPaths, now>>
  /\ UNCHANGED notDaemon

\* The microtask queued by handleTrigger: executeRun up to its await.
RunMicrotask ==
  /\ pcDaemon = "listening"
  /\ ~Spinning
  /\ microtasks # << >>
  /\ LET id == Head(microtasks) IN
       /\ microtasks' = Tail(microtasks)
       /\ runRecords' =
            IF id \in SeqRange(runs)
              THEN [runRecords EXCEPT ![id].status = "running"]
              ELSE runRecords
  /\ UNCHANGED <<pcDaemon, authToken, allowedPaths, runs, now, lastReq, lastResp>>
  /\ UNCHANGED notDaemon

\* A value thrown by runFullScan or runDiffScan.
ScanThrown == { [isError |-> TRUE, message |-> "scan failed"],
                [isError |-> FALSE, message |-> "undefined"] }

RunError(thrown) ==
  IF thrown.isError THEN thrown.message ELSE "Unknown run error"

\* executeRun after the await: the scan returned a result.
ScanReturns(id) ==
  /\ pcDaemon = "listening"
  /\ EventLoopIdle(microtasks)
  /\ id \in RunIds
  /\ runRecords[id].status = "running"
  /\ runRecords' = [runRecords EXCEPT ![id].status = "completed",
                                      ![id].result = TRUE]
  /\ UNCHANGED <<pcDaemon, authToken, allowedPaths, runs, microtasks, now,
                 lastReq, lastResp>>
  /\ UNCHANGED notDaemon

\* executeRun at the await: the scan calls dispatchScanners with a concurrency
\* limit of 0, whose loop never yields.
ScanSpins(id) ==
  /\ pcDaemon = "listening"
  /\ EventLoopIdle(microtasks)
  /\ id \in RunIds
  /\ runRecords[id].status = "running"
  /\ DispatchStart
  /\ maxConcurrentAgents' = 0

\* executeRun after the await: the scan threw.
ScanThrows(id, thrown) ==
  /\ pcDaemon = "listening"
  /\ EventLoopIdle(microtasks)
  /\ id \in RunIds
  /\ runRecords[id].status = "running"
  /\ runRecords' = [runRecords EXCEPT ![id].status = "failed",
                                      ![id].error = RunError(thrown)]
  /\ UNCHANGED <<pcDaemon, authToken, allowedPaths, runs, microtasks, now,
                 lastReq, lastResp>>
  /\ UNCHANGED notDaemon

\* ======================================================================
\* Part III: findings aggregator (aggregator.ts)
\* ======================================================================

\* Severity, lowest first.
Severities == <<"LOW", "MEDIUM", "HIGH", "CRITICAL">>

Finding(scanner, vc, f, l, sev, conf, t) ==
  [scanner_id |-> scanner, vuln_class |-> vc, file |-> f, line |-> l,
   severity |-> sev, confidence |-> conf, title |-> t]

\* `${finding.vuln_class}|${finding.file}|${finding.line}`
Key(finding) == <<finding.vuln_class, "|", finding.file, "|", finding.line>>

\* byKey.get(key): the position of the key in the Map, 0 when absent.
IndexOfKey(byKey, key) ==
  IF \E k \in 1..Len(byKey) : Key(byKey[k]) = key
    THEN CHOOSE k \in 1..Len(byKey) : Key(byKey[k]) = key
    ELSE 0

\* !existing || finding.confidence > existing.confidence
Replaces(finding, existing) == finding.confidence > existing.confidence

\* The Map after the first n findings: keys in order of first insertion, a
\* replaced value keeps the position of its key.
RECURSIVE ByKeyUpTo(_, _)
ByKeyUpTo(findingList, n) ==
  IF n = 0 THEN << >>
  ELSE LET byKey == ByKeyUpTo(findingList, n - 1)
           finding == findingList[n]
           k == IndexOfKey(byKey, Key(finding))
       IN IF k = 0 THEN Append(byKey, finding)
          ELSE IF Replaces(finding, byKey[k]) THEN [byKey EXCEPT ![k] = finding]
          ELSE byKey

InsertByConfidence_BeforeEqual(sorted, finding) ==
  LET before == { k \in 1..Len(sorted) : sorted[k].confidence > finding.confidence }
      n == Cardinality(before)
  IN SubSeq(sorted, 1, n) \o <<finding>> \o SubSeq(sorted, n + 1, Len(sorted))

\* One step of the stable sort by (a, b) => b.confidence - a.confidence: the
\* finding goes after every element that does not sort after it.
InsertByConfidence(sorted, finding) ==
  LET before == { k \in 1..Len(sorted) : sorted[k].confidence >= finding.confidence }
      n == Cardinality(before)
  IN SubSeq(sorted, 1, n) \o <<finding>> \o SubSeq(sorted, n + 1, Len(sorted))

RECURSIVE SortByConfidence(_, _)
SortByConfidence(values, n) ==
  IF n = 0 THEN << >>
  ELSE InsertByConfidence(SortByConfidence(values, n - 1), values[n])

aggregateFindings(findingList) ==
  LET byKey == ByKeyUpTo(findingList, Len(findingList))
  IN SortByConfidence(byKey, Len(byKey))

\* ------------------------------------------------------------------- Init
AggregateIdle ==
  /\ pcAgg = "idle"
  /\ aggIn = << >>
  /\ aggPrev = << >>
  /\ aggOut = << >>

\* ------------------------------------------------------------ input sets
Scanners == {"A", "B"}
NewScanner == "C"
Lines == {1, 2}
InputSeverities == {"LOW", "CRITICAL"}
Confidences == {68, 70, 85}

FindingsOfScanners(scanners) ==
  { Finding(s, "sqli", "a.rs", l, sev, conf, <<"SQL", "injection">>) :
      s \in scanners, l \in Lines, sev \in InputSeverities, conf \in Confidences }

FindingLists ==
  UNION { [1..n -> FindingsOfScanners(Scanners)] : n \in 0..MaxInputLen }

NewScannerLists ==
  { <<f>> : f \in FindingsOfScanners({NewScanner}) }

\* The orders in which the same findings can be pushed by completing tasks.
Reorderings(findingList) ==
  { [k \in 1..Len(findingList) |-> findingList[order[k]]] :
      order \in { o \in [1..Len(findingList) -> 1..Len(findingList)] :
                    \A i, j \in 1..Len(findingList) : i # j => o[i] # o[j] } }

\* ---------------------------------------------------------------- actions
\* aggregateFindings(dispatched.findings)
Aggregate ==
  /\ pcAgg = "input"
  /\ aggOut' = aggregateFindings(aggIn)
  /\ pcAgg' = "aggregated"
  /\ UNCHANGED <<aggIn, aggPrev>>
  /\ UNCHANGED notAggregate

\* aggregateFindings applied to its own result.
AggregateAgain ==
  /\ pcAgg = "aggregated"
  /\ aggIn' = aggOut
  /\ aggPrev' = aggOut
  /\ aggOut' = aggregateFindings(aggOut)
  /\ pcAgg' = "reaggregated"
  /\ UNCHANGED notAggregate

\* aggregateFindings applied to the same findings followed by those of one
\* more scanner.
AggregateMore(more) ==
  /\ pcAgg = "aggregated"
  /\ aggIn' = aggIn \o more
  /\ aggPrev' = aggOut
  /\ aggOut' = aggregateFindings(aggIn \o more)
  /\ pcAgg' = "extended"
  /\ UNCHANGED notAggregate

\* aggregateFindings applied to the same findings pushed in another order.
AggregatePermuted(permuted) ==
  /\ pcAgg = "aggregated"
  /\ aggIn' = permuted
  /\ aggPrev' = aggOut
  /\ aggOut' = aggregateFindings(permuted)
  /\ pcAgg' = "permuted"
  /\ UNCHANGED notAggregate

\* ======================================================================
\* Part IV: threat-model store (aggregator.ts)
\* ======================================================================

NoId == <<"undefined">>

\* `${repoId}-v${String(revision).padStart(4, "0")}`, for the one repo.
VersionId(revision) == <<"repo", "-v", revision>>

ThreatModelVersion(revision, parentId, fingerprintHash) ==
  [id |-> VersionId(revision), revision |-> revision,
   parent_version_id |-> parentId, fingerprint_hash |-> fingerprintHash]

\* The result of a find that matches nothing.
NoVersion ==
  [id |-> NoId, revision |-> 0, parent_version_id |-> NoId,
   fingerprint_hash |-> "none"]

Fingerprints == {"h1", "h2"}

\* ThreatModelStore; by_fingerprint gives NoId for a hash it does not hold.
ThreatModelStore(latest, byFingerprint, versionList) ==
  [latest_version_id |-> latest, by_fingerprint |-> byFingerprint,
   versions |-> versionList]

EmptyStore == ThreatModelStore(NoId, [h \in Fingerprints |-> NoId], << >>)

File(store) == [exists |-> TRUE, store |-> store]
NoFile == [exists |-> FALSE, store |-> EmptyStore]

\* loadStore
loadStore(file) == IF ~file.exists THEN EmptyStore ELSE file.store

\* store.versions.find((version) => version.id === id)
FindVersion(store, id) ==
  IF \E k \in 1..Len(store.versions) : store.versions[k].id = id
    THEN store.versions[CHOOSE k \in 1..Len(store.versions) :
                          /\ store.versions[k].id = id
                          /\ \A j \in 1..(k - 1) : store.versions[j].id # id]
    ELSE NoVersion

\* The version returned from the cache, NoVersion when the hash is not
\* indexed or its version is not in the list.
CachedVersion(store, fingerprintHash) ==
  IF store.by_fingerprint[fingerprintHash] # NoId
    THEN FindVersion(store, store.by_fingerprint[fingerprintHash])
    ELSE NoVersion

ParentVersion(store) ==
  IF store.latest_version_id # NoId
    THEN FindVersion(store, store.latest_version_id)
    ELSE NoVersion

NextRevision_SameAsParent(store) ==
  IF ParentVersion(store) # NoVersion THEN ParentVersion(store).revision ELSE 1

\* (parentVersion?.revision ?? 0) + 1
NextRevision(store) ==
  (IF ParentVersion(store) # NoVersion THEN ParentVersion(store).revision ELSE 0) + 1

NewVersion(store, fingerprintHash) ==
  ThreatModelVersion(NextRevision(store), ParentVersion(store).id, fingerprintHash)

\* The store object after latest_version_id, by_fingerprint and versions
\* have been updated with the new version.
WithVersion(store, version) ==
  ThreatModelStore(
    version.id,
    [store.by_fingerprint EXCEPT ![version.fingerprint_hash] = version.id],
    Append(store.versions, version))

ThreatModelInfo(version, fromCache) ==
  [version |-> version, loaded_from_cache |-> fromCache]

NoInfo == ThreatModelInfo(NoVersion, FALSE)

\* One call: where it is, its fingerprint hash, the store object it loaded,
\* what it wrote to the file and what it returned.
CallState(pc, fingerprintHash, loaded, written, info) ==
  [pc |-> pc, fingerprint_hash |-> fingerprintHash, loaded |-> loaded,
   written |-> written, info |-> info]

Calls == 1..NumCalls

\* ------------------------------------------------------------------- Init
ThreatIdle ==
  /\ storeFile = NoFile
  /\ calls = [c \in Calls |-> CallState("idle", "none", EmptyStore, NoFile, NoInfo)]
  /\ everWritten = {}

\* ---------------------------------------------------------------- actions
\* loadOrCreateThreatModel(target) up to the await of loadStore: the
\* fingerprint of the target is computed.
CallThreatModel(c, fingerprintHash) ==
  /\ calls[c].pc = "idle"
  /\ calls' = [calls EXCEPT ![c].pc = "fingerprinted",
                            ![c].fingerprint_hash = fingerprintHash]
  /\ UNCHANGED <<storeFile, everWritten>>
  /\ UNCHANGED notThreat

\* loadStore returns; a cached version is returned at once, otherwise the
\* call goes on to generate the summary.
LoadStore(c) ==
  /\ calls[c].pc = "fingerprinted"
  /\ LET store == loadStore(storeFile)
         cached == CachedVersion(store, calls[c].fingerprint_hash)
     IN calls' =
          IF cached # NoVersion
            THEN [calls EXCEPT ![c].pc = "returned", ![c].loaded = store,
                               ![c].info = ThreatModelInfo(cached, TRUE)]
            ELSE [calls EXCEPT ![c].pc = "generating", ![c].loaded = store]
  /\ UNCHANGED <<storeFile, everWritten>>
  /\ UNCHANGED notThreat

\* The summary is ready: the version is built from the loaded store, pushed
\* on it, and writeStore replaces the file with that store.
WriteStore(c) ==
  /\ calls[c].pc = "generating"
  /\ LET version == NewVersion(calls[c].loaded, calls[c].fingerprint_hash)
         store == WithVersion(calls[c].loaded, version)
     IN /\ storeFile' = File(store)
        /\ everWritten' = everWritten \cup {version}
        /\ calls' = [calls EXCEPT ![c].pc = "returned", ![c].written = File(store),
                                  ![c].info = ThreatModelInfo(version, FALSE)]
  /\ UNCHANGED notThreat

\* ======================================================================
\* Part V: scan cache (daemon.ts, ScanCache)
\* ======================================================================

DEFAULT_TTL_MS == 24 * 60 * 60 * 1000

CacheScanners == {"A", "B"}
Paths == {"f1", "f2", "f3"}
Contents == {"c1"}
\* The findings array given to the n-th put.
FindingsOfPut(n) == <<"F", n>>
\* The optional ttlMs argument of put.
Ttl(ms) == [given |-> TRUE, ms |-> ms]
NoTtl == [given |-> FALSE, ms |-> 0]
Ttls == { NoTtl, Ttl(0) }
Miss == <<"undefined">>

\* createHash("sha256").update(content).digest("hex")
contentHash(content) == <<"sha256", content>>

\* createHash("sha256").update(filePath).digest("hex").slice(0, 12): 48 bits
\* of the digest, which distinct paths can share (here f1 and f3).
PathHash(filePath) ==
  CASE filePath = "f1" -> "d1"
    [] filePath = "f2" -> "d2"
    [] filePath = "f3" -> "d1"

\* `${scannerId}:${pathHash}:${fileContentHash}`
cacheKey(scannerId, filePath, fileContentHash) ==
  <<scannerId, ":", PathHash(filePath), ":", fileContentHash>>

CacheEntry(key, scannerId, filePath, hash, findingList, cachedAt, ttlMs) ==
  [key |-> key, scanner_id |-> scannerId, file_path |-> filePath,
   content_hash |-> hash, findings |-> findingList, cached_at |-> cachedAt,
   ttl_ms |-> ttlMs]

isExpired_AtTtl(entry, clock) == clock - entry.cached_at >= entry.ttl_ms

\* age > entry.ttl_ms
isExpired(entry, clock) == clock - entry.cached_at > entry.ttl_ms

\* The position of a key in store.entries, 0 when absent.
EntryIndex(entryList, key) ==
  IF \E k \in 1..Len(entryList) : entryList[k].key = key
    THEN CHOOSE k \in 1..Len(entryList) : entryList[k].key = key
    ELSE 0

\* delete store.entries[key], for every key of the set.
DeleteKeys(entryList, keys) ==
  LET keep == { k \in 1..Len(entryList) : entryList[k].key \notin keys }
      RECURSIVE Pick(_)
      Pick(n) ==
        IF n = 0 THEN << >>
        ELSE IF n \in keep THEN Append(Pick(n - 1), entryList[n])
        ELSE Pick(n - 1)
  IN Pick(Len(entryList))

\* store.entries[key] = entry: a new key goes last, an existing key keeps
\* its place.
SetEntry(entryList, entry) ==
  LET k == EntryIndex(entryList, entry.key)
  IN IF k = 0 THEN Append(entryList, entry) ELSE [entryList EXCEPT ![k] = entry]

\* One step of the stable sort of the keys by cached_at ascending.
InsertByCachedAt(sorted, entry) ==
  LET before == { k \in 1..Len(sorted) : sorted[k].cached_at <= entry.cached_at }
      n == Cardinality(before)
  IN SubSeq(sorted, 1, n) \o <<entry>> \o SubSeq(sorted, n + 1, Len(sorted))

RECURSIVE SortByCachedAt(_, _)
SortByCachedAt(entryList, n) ==
  IF n = 0 THEN << >>
  ELSE InsertByCachedAt(SortByCachedAt(entryList, n - 1), entryList[n])

evictIfNeeded_DropsLast(entryList) ==
  IF Len(entryList) <= MAX_CACHE_ENTRIES THEN entryList
  ELSE SubSeq(entryList, 1, MAX_CACHE_ENTRIES)

\* evictIfNeeded
evictIfNeeded(entryList) ==
  IF Len(entryList) <= MAX_CACHE_ENTRIES THEN entryList
  ELSE LET sorted == SortByCachedAt(entryList, Len(entryList))
           removeCount == Len(entryList) - MAX_CACHE_ENTRIES
       IN DeleteKeys(entryList, { sorted[i].key : i \in 1..removeCount })

Triple(scannerId, filePath, content) ==
  [scanner_id |-> scannerId, file_path |-> filePath, content |-> content]

Triples ==
  { Triple("A", f, c) : f \in Paths, c \in Contents }
  \cup { Triple("B", "f1", c) : c \in Contents }

NoTriple == Triple("none", "none", "none")

KeyOf(triple) ==
  cacheKey(triple.scanner_id, triple.file_path, contentHash(triple.content))

PutRecord(seq, at, ttlMs, findingList) ==
  [seq |-> seq, cached_at |-> at, ttl_ms |-> ttlMs, findings |-> findingList]

NoPut == PutRecord(0, 0, 0, Miss)

LookupRecord(triple, result) == [triple |-> triple, result |-> result]

NoLookup == LookupRecord(NoTriple, Miss)

KeysOf(entryList) == { entryList[k].key : k \in 1..Len(entryList) }

\* The puts still standing once the keys are gone from store.entries.
Forget(putLog, keys) ==
  [t \in Triples |-> IF KeyOf(t) \in keys THEN NoPut ELSE putLog[t]]

\* ------------------------------------------------------------------- Init
CacheIdle ==
  /\ cacheEntries = << >>
  /\ cacheNow = 0
  /\ lastPut = [t \in Triples |-> NoPut]
  /\ putCount = 0
  /\ lastLookup = NoLookup

\* ---------------------------------------------------------------- actions
\* put(scannerId, filePath, fileContent, findings, ttlMs)
Put(triple, ttlMs) ==
  /\ putCount < MaxPuts
  /\ LET findingList == FindingsOfPut(putCount + 1)
         ttl == IF ttlMs.given THEN ttlMs.ms ELSE DEFAULT_TTL_MS
         entry == CacheEntry(KeyOf(triple), triple.scanner_id, triple.file_path,
                             contentHash(triple.content), findingList, cacheNow, ttl)
         written == SetEntry(cacheEntries, entry)
         kept == evictIfNeeded(written)
     IN /\ cacheEntries' = kept
        /\ lastPut' =
             Forget([lastPut EXCEPT
                       ![triple] = PutRecord(putCount + 1, cacheNow, ttl, findingList)],
                    KeysOf(written) \ KeysOf(kept))
  /\ putCount' = putCount + 1
  /\ lastLookup' = NoLookup
  /\ UNCHANGED cacheNow
  /\ UNCHANGED notCache

\* lookup(scannerId, filePath, fileContent)
Lookup(triple) ==
  /\ LET k == EntryIndex(cacheEntries, KeyOf(triple))
     IN IF k = 0
          THEN /\ lastLookup' = LookupRecord(triple, Miss)
               /\ UNCHANGED cacheEntries
        ELSE IF isExpired(cacheEntries[k], cacheNow)
          THEN /\ lastLookup' = LookupRecord(triple, Miss)
               /\ cacheEntries' = DeleteKeys(cacheEntries, {KeyOf(triple)})
        ELSE /\ lastLookup' = LookupRecord(triple, cacheEntries[k].findings)
             /\ UNCHANGED cacheEntries
  /\ UNCHANGED <<cacheNow, lastPut, putCount>>
  /\ UNCHANGED notCache

\* invalidateScanner(scannerId)
InvalidateScanner(scannerId) ==
  /\ LET deleted == { cacheEntries[k].key : k \in
                        { j \in 1..Len(cacheEntries) :
                            cacheEntries[j].scanner_id = scannerId } }
     IN /\ cacheEntries' = DeleteKeys(cacheEntries, deleted)
        /\ lastPut' = Forget(lastPut, deleted)
  /\ lastLookup' = NoLookup
  /\ UNCHANGED <<cacheNow, putCount>>
  /\ UNCHANGED notCache

\* invalidateAll()
InvalidateAll ==
  /\ cacheEntries' = << >>
  /\ lastPut' = Forget(lastPut, KeysOf(cacheEntries))
  /\ lastLookup' = NoLookup
  /\ UNCHANGED <<cacheNow, putCount>>
  /\ UNCHANGED notCache

\* Date.now() advances.
CacheTick ==
  /\ cacheNow < MaxCacheClock
  /\ cacheNow' = cacheNow + 1
  /\ lastLookup' = NoLookup
  /\ UNCHANGED <<cacheEntries, lastPut, putCount>>
  /\ UNCHANGED notCache

\* ======================================================================
\* Part VI: adversarial pipeline (adversarial.ts, agents/judge/agent.ts)
\* ======================================================================
DEFAULT_MAX_CONCURRENT == 2
DEFAULT_MIN_CONFIDENCE == 50

\* The fields of a Finding the pipeline reads or copies.
DebatedFinding(id, sev, conf) == [id |-> id, severity |-> sev, confidence |-> conf]

\* `about` stands for the content of the assessment: the finding whose
\* prompt the attacker answered (0: the literal of the catch arm).
RedTeamAssessment(about, exploitable, conf, executed, exitCode, reason) ==
  [about |-> about, exploitable |-> exploitable, confidence |-> conf,
   sandbox_executed |-> executed, sandbox_exit_code |-> exitCode,
   reason |-> reason]

NoRed == RedTeamAssessment(0, FALSE, 0, FALSE, NoCount, "none")

\* red_team of the result pushed by .catch
PipelineError ==
  RedTeamAssessment(0, FALSE, 0, FALSE, NoCount, "Adversarial pipeline error")

\* `about`: the red-team assessment rendered into the defender's prompt.
BlueTeamAssessment(about, recommendation) ==
  [about |-> about, recommendation |-> recommendation]

NoBlue == BlueTeamAssessment(NoRed, "none")

JudgeVerdict(verdict, sev, conf, reasoning) ==
  [verdict |-> verdict, final_severity |-> sev, final_confidence |-> conf,
   reasoning |-> reasoning]

NoJudge == JudgeVerdict("none", "none", 0, "none")

AdversarialResult(finding, red, blue, judge) ==
  [finding |-> finding, red_team |-> red, blue_team |-> blue, judge |-> judge]

\* What the attacker's model answers: an exploit with confidence 85 and no
\* exploit code, or text that is not JSON.
RedReplies == {"exploit85", "unparseable"}

runRedTeamAgent(finding, reply) ==
  IF reply = "unparseable"
    THEN RedTeamAssessment(finding.id, FALSE, 0, FALSE, NoCount,
                           "Failed to parse Red Team response")
    ELSE RedTeamAssessment(finding.id, TRUE, 85, FALSE, NoCount, "none")

BlueReplies == {"confirmed", "mitigated"}

runBlueTeamAgent(finding, redTeamAssessment, reply) ==
  BlueTeamAssessment(redTeamAssessment, reply)

\* What the judge's model answers: text that is not JSON, or a JSON object.
JudgeReply(kind, verdict, sev, isNumber, conf) ==
  [kind |-> kind, verdict |-> verdict, final_severity |-> sev,
   is_number |-> isNumber, final_confidence |-> conf]

JudgeReplies ==
  { JudgeReply("unparseable", "none", "none", FALSE, 0),
    JudgeReply("json", "confirmed", "CRITICAL", TRUE, 150),
    JudgeReply("json", "false_positive", "bogus", FALSE, 0) }

VALID_VERDICTS == {"confirmed", "likely", "disputed", "false_positive"}

inferVerdict_BlueFirst(red, blue) ==
  IF red.sandbox_executed /\ red.sandbox_exit_code = 0 THEN "confirmed"
  ELSE IF blue.recommendation = "mitigated" THEN "disputed"
  ELSE IF red.exploitable /\ red.confidence >= 70 THEN "likely"
  ELSE IF blue.recommendation = "infeasible" THEN "false_positive"
  ELSE "likely"

inferVerdict(red, blue) ==
  IF red.sandbox_executed /\ red.sandbox_exit_code = 0 THEN "confirmed"
  ELSE IF red.exploitable /\ red.confidence >= 70 THEN "likely"
  ELSE IF blue.recommendation = "mitigated" THEN "disputed"
  ELSE IF blue.recommendation = "infeasible" THEN "false_positive"
  ELSE "likely"

fallbackVerdict(finding, red, blue) ==
  JudgeVerdict(inferVerdict(red, blue), finding.severity, finding.confidence,
               "Failed to parse Judge response")

Clamp(lo, hi, n) == IF n < lo THEN lo ELSE IF n > hi THEN hi ELSE n

\* runJudgeAgent once createMessage has returned.
runJudgeAgent(finding, red, blue, reply) ==
  IF reply.kind = "unparseable"
    THEN fallbackVerdict(finding, red, blue)
    ELSE JudgeVerdict(
           IF reply.verdict \in VALID_VERDICTS THEN reply.verdict
                                               ELSE inferVerdict(red, blue),
           IF reply.final_severity \in {"CRITICAL", "HIGH", "MEDIUM", "LOW"}
             THEN reply.final_severity ELSE finding.severity,
           IF reply.is_number THEN Clamp(0, 100, reply.final_confidence)
                              ELSE finding.confidence,
           "")

\* ------------------------------------------------- the judge on its own
JudgeIdle ==
  /\ judgePc = "idle"
  /\ judgeRed = NoRed
  /\ judgeBlue = NoBlue
  /\ judgeReply = JudgeReply("none", "none", "none", FALSE, 0)
  /\ judgeVerdict = NoJudge

\* runJudgeAgent(context) up to its await of createMessage.
CallJudge(red, blue) ==
  /\ judgePc = "idle"
  /\ judgePc' = "asked"
  /\ judgeRed' = red
  /\ judgeBlue' = blue
  /\ UNCHANGED <<judgeReply, judgeVerdict>>
  /\ UNCHANGED notJudge

\* createMessage returns the model's text; runJudgeAgent returns.
JudgeAnswers(finding, reply) ==
  /\ judgePc = "asked"
  /\ judgePc' = "returned"
  /\ judgeReply' = reply
  /\ judgeVerdict' = runJudgeAgent(finding, judgeRed, judgeBlue, reply)
  /\ UNCHANGED <<judgeRed, judgeBlue>>
  /\ UNCHANGED notJudge

\* One call of processOneFinding: where it is, what its awaits returned and
\* what it passed to the defender and to the judge.
Debate(stage, red, blue, blueGiven, judgeGivenRed, judgeGivenBlue) ==
  [stage |-> stage, red |-> red, blue |-> blue, blue_given |-> blueGiven,
   judge_given_red |-> judgeGivenRed, judge_given_blue |-> judgeGivenBlue]

NoDebate == Debate("none", NoRed, NoBlue, NoRed, NoRed, NoBlue)

\* redTeamAssessment: redTeam, in the argument of runBlueTeamAgent
BlueInput_LatestRed(ds, i) ==
  LET done == { j \in DOMAIN ds : ds[j].red # NoRed }
  IN ds[CHOOSE j \in done : \A k \in done : k <= j].red

BlueInput(ds, i) == ds[i].red

Eligible_Above(input, minConfidence) ==
  SelectSeq([k \in 1..Len(input) |-> k],
            LAMBDA k : input[k].confidence > minConfidence)

\* findings.filter((f) => f.confidence >= minConfidence), as indices
Eligible(input, minConfidence) ==
  SelectSeq([k \in 1..Len(input) |-> k],
            LAMBDA k : input[k].confidence >= minConfidence)

\* !r.judge || r.judge.verdict === "confirmed" || r.judge.verdict === "likely"
PassesFilter(r) ==
  r.judge = NoJudge \/ r.judge.verdict \in {"confirmed", "likely"}

Refined(r) ==
  IF r.judge = NoJudge THEN r.finding
  ELSE [r.finding EXCEPT !.severity = r.judge.final_severity,
                         !.confidence = r.judge.final_confidence]

filterByVerdict(results) ==
  LET kept == SelectSeq(results, PassesFilter)
  IN [k \in 1..Len(kept) |-> Refined(kept[k])]

\* ------------------------------------------------------------------- Init
AdversarialIdle ==
  /\ advPc = "idle"
  /\ advMax = 0
  /\ advIn = << >>
  /\ advQueue = << >>
  /\ advRunning = {}
  /\ debates = << >>
  /\ advResults = << >>
  /\ advFiltered = << >>

\* ---------------------------------------------------------------- actions
\* The inner while loop: processNext() while the queue is not empty and
\* running.size < maxConcurrent. The number of debates it starts.
Started(q, inFlight, limit) ==
  IF limit - Cardinality(inFlight) <= 0 THEN 0
  ELSE IF Len(q) <= limit - Cardinality(inFlight) THEN Len(q)
  ELSE limit - Cardinality(inFlight)

\* The outer loop from its top to its next await, its return, or for ever.
PipelineLoop(q, inFlight, ds, limit) ==
  LET n == Started(q, inFlight, limit)
      started == { q[k] : k \in 1..n }
  IN /\ advQueue' = SubSeq(q, n + 1, Len(q))
     /\ advRunning' = inFlight \cup started
     /\ debates' = [i \in DOMAIN ds |->
                      IF i \in started THEN [ds[i] EXCEPT !.stage = "read"]
                                       ELSE ds[i]]
     /\ advPc' = IF Len(q) = 0 /\ inFlight = {} THEN "returned"
                 ELSE IF inFlight \cup started = {} THEN "spinning"
                 ELSE "awaiting"

\* runAdversarialPipeline(findings, options) up to its first await.
CallPipeline(input, maxConcurrent) ==
  /\ advPc = "idle"
  /\ advIn' = input
  /\ advMax' = maxConcurrent
  /\ advResults' = << >>
  /\ PipelineLoop(Eligible(input, DEFAULT_MIN_CONFIDENCE), {},
                  [i \in 1..Len(input) |-> NoDebate], maxConcurrent)
  /\ UNCHANGED advFiltered
  /\ UNCHANGED notAdversarial

\* while (queue.length > 0 || running.size > 0) with nothing to start and
\* nothing to await.
PipelineSpins ==
  /\ advPc = "spinning"
  /\ UNCHANGED vars

\* readSource returns; runRedTeamAgent is called.
SourceRead(i) ==
  /\ advPc = "awaiting"
  /\ i \in advRunning
  /\ debates[i].stage = "read"
  /\ debates' = [debates EXCEPT ![i].stage = "red"]
  /\ UNCHANGED <<advPc, advMax, advIn, advQueue, advRunning, advResults,
                 advFiltered>>
  /\ UNCHANGED notAdversarial

\* runRedTeamAgent returns; runBlueTeamAgent is called.
RedReturns(i, reply) ==
  /\ advPc = "awaiting"
  /\ i \in advRunning
  /\ debates[i].stage = "red"
  /\ LET withRed == [debates EXCEPT ![i].red = runRedTeamAgent(advIn[i], reply)]
     IN debates' = [withRed EXCEPT ![i].stage = "blue",
                                   ![i].blue_given = BlueInput(withRed, i)]
  /\ UNCHANGED <<advPc, advMax, advIn, advQueue, advRunning, advResults,
                 advFiltered>>
  /\ UNCHANGED notAdversarial

\* runBlueTeamAgent returns; runJudgeAgent is called.
BlueReturns(i, reply) ==
  /\ advPc = "awaiting"
  /\ i \in advRunning
  /\ debates[i].stage = "blue"
  /\ LET blue == runBlueTeamAgent(advIn[i], debates[i].blue_given, reply)
     IN debates' = [debates EXCEPT ![i].stage = "judge",
                                   ![i].blue = blue,
                                   ![i].judge_given_red = debates[i].red,
                                   ![i].judge_given_blue = blue]
  /\ UNCHANGED <<advPc, advMax, advIn, advQueue, advRunning, advResults,
                 advFiltered>>
  /\ UNCHANGED notAdversarial

\* The task promise settles: its result is pushed, .finally removes it from
\* running, and the outer loop resumes from Promise.race.
Settle(i, stage, result) ==
  /\ advResults' = Append(advResults, result)
  /\ PipelineLoop(advQueue, advRunning \ {i},
                  [debates EXCEPT ![i].stage = stage], advMax)
  /\ UNCHANGED <<advMax, advIn, advFiltered>>
  /\ UNCHANGED notAdversarial

\* runJudgeAgent returns; processOneFinding returns and .then pushes.
JudgeReturns(i, reply) ==
  /\ advPc = "awaiting"
  /\ i \in advRunning
  /\ debates[i].stage = "judge"
  /\ Settle(i, "done",
            AdversarialResult(advIn[i], debates[i].red, debates[i].blue,
                              runJudgeAgent(advIn[i], debates[i].judge_given_red,
                                            debates[i].judge_given_blue, reply)))

\* The role awaited throws (createMessage rejects once every model has
\* failed); processOneFinding rejects and .catch pushes.
RoleThrows(i) ==
  /\ advPc = "awaiting"
  /\ i \in advRunning
  /\ debates[i].stage \in {"red", "blue", "judge"}
  /\ Settle(i, "thrown_" \o debates[i].stage,
            AdversarialResult(advIn[i], PipelineError, NoBlue, NoJudge))

\* filterByVerdict(results) on what the pipeline returned.
FilterByVerdict ==
  /\ advPc = "returned"
  /\ advPc' = "filtered"
  /\ advFiltered' = filterByVerdict(advResults)
  /\ UNCHANGED <<advMax, advIn, advQueue, advRunning, debates, advResults>>
  /\ UNCHANGED notAdversarial

\* ======================================================================
\* Part VII: patch review (review agent of part_009, patch-pipeline.ts)
\* ======================================================================

\* A line of a hunk: " " context, "-" removed, "+" added, and its text.
PatchLine(kind, text) == [kind |-> kind, text |-> text]

\* "@@ -start,n +m,k @@" and the lines up to the next hunk header.
Hunk(start, lines) == [start |-> start, lines |-> lines]

\* patch_diff: whether the text is empty, whether it has a "---" or "+++"
\* file header, and its hunks.
Diff(empty, headers, hunks) == [empty |-> empty, headers |-> headers, hunks |-> hunks]

\* Array.prototype.splice(start, deleteCount, ...items), start counted from 0
Splice(lines, start, deleteCount, items) ==
  LET len == Len(lines)
      from == IF start < 0 THEN (IF len + start < 0 THEN 0 ELSE len + start)
              ELSE IF start > len THEN len ELSE start
      gone == IF deleteCount > len - from THEN len - from ELSE deleteCount
  IN SubSeq(lines, 1, from) \o items \o SubSeq(lines, from + gone + 1, len)

TextsOf(lines, kind) ==
  LET of == SelectSeq(lines, LAMBDA l : l.kind = kind)
  IN [k \in 1..Len(of) |-> of[k].text]

\* Every removed line must be the source line at its expected position.
ContextMatches_Always(sourceLines, startLine, removed) == TRUE

\* actualLine === expectedContent for the removed lines, from startLine on
ContextMatches(sourceLines, startLine, removed) ==
  \A r \in 1..Len(removed) :
    /\ startLine + r \in 1..Len(sourceLines)
    /\ sourceLines[startLine + r] = removed[r]

\* The for loop over the hunk headers of applyPatchToSource.
RECURSIVE ApplyHunks(_, _, _, _, _)
ApplyHunks(sourceLines, hunks, i, offset, anyApplied) ==
  IF i > Len(hunks)
    THEN [patched |-> sourceLines, applied |-> anyApplied]
    ELSE LET startLine == hunks[i].start - 1 + offset
             removeLines == TextsOf(hunks[i].lines, "-")
             addLines == TextsOf(hunks[i].lines, "+")
         IN IF /\ ContextMatches(sourceLines, startLine, removeLines)
               /\ (Len(removeLines) > 0 \/ Len(addLines) > 0)
              THEN ApplyHunks(Splice(sourceLines, startLine, Len(removeLines),
                                     addLines),
                              hunks, i + 1,
                              offset + Len(addLines) - Len(removeLines), TRUE)
              ELSE ApplyHunks(sourceLines, hunks, i + 1, offset, anyApplied)

applyPatchToSource(source, patchDiff) ==
  IF patchDiff.hunks = << >> \/ ~patchDiff.headers
    THEN [patched |-> source, applied |-> FALSE]
    ELSE ApplyHunks(source, patchDiff.hunks, 1, 0, FALSE)

NotApplied == [patched |-> << >>, applied |-> FALSE]

ReviewIssue(severity, description) ==
  [severity |-> severity, description |-> description]

UnmatchedContext == ReviewIssue("error", "Context lines did not match")
ExploitStillSucceeds == ReviewIssue("error", "Exploit still succeeds")
RetestCouldNotRun == ReviewIssue("warning", "Exploit retest could not run")

\* exploit_retest_passed is "true", "false" or "undefined".
PatchReview(approved, issues, retest) ==
  [approved |-> approved, issues |-> issues, exploit_retest_passed |-> retest]

NoReview == PatchReview(FALSE, {}, "none")

\* return result.exit_code !== 0, for the exit code of the exploit
RetestPassed(exitCode) == IF exitCode # 0 THEN "true" ELSE "false"

\* exploitRetestPassed === false forces approved to false
OverrideOnRetest_Never(approved, retest) == approved

OverrideOnRetest(approved, retest) == IF retest = "false" THEN FALSE ELSE approved

\* runReviewAgent from the override of the approval to its return.
ReviewOf(approved, issues, retest, hasExploit) ==
  PatchReview(OverrideOnRetest(approved, retest),
              issues
                \cup (IF retest = "false" THEN {ExploitStillSucceeds} ELSE {})
                \cup (IF retest = "undefined" /\ hasExploit
                        THEN {RetestCouldNotRun} ELSE {}),
              retest)

StatusOfReview(r) ==
  IF r.approved THEN "patched_and_verified" ELSE "patch_rejected"

\* The inputs of one processOne call.
PatchCase(verdict, hasExploit, source, skipReview) ==
  [verdict |-> verdict, has_exploit |-> hasExploit, source |-> source,
   skip_review |-> skipReview]

NoCase == PatchCase("none", FALSE, << >>, FALSE)

\* runPatchAgent returned undefined, or a proposal with this patch_diff.
Proposal(given, patchDiff) == [given |-> given, patch_diff |-> patchDiff]

NoProposal == Proposal(FALSE, Diff(TRUE, FALSE, << >>))

\* ------------------------------------------------------------------- Init
PatchIdle ==
  /\ patchPc = "idle"
  /\ patchCase = NoCase
  /\ proposal = NoProposal
  /\ applied = NotApplied
  /\ review = NoReview
  /\ patchStatus = "none"

\* ---------------------------------------------------------------- actions
\* processOne(adversarial, skipReview) up to await runPatchAgent.
ProcessOne(case) ==
  /\ patchPc = "idle"
  /\ patchCase' = case
  /\ IF case.verdict \notin {"confirmed", "likely"}
       THEN patchPc' = "done" /\ patchStatus' = "skipped"
       ELSE patchPc' = "patching" /\ patchStatus' = "none"
  /\ UNCHANGED <<proposal, applied, review>>
  /\ UNCHANGED notPatch

\* runPatchAgent returns; processOne goes on to await runReviewAgent, which
\* reads the source and awaits the reviewer's model.
PatchAgentReturns(patch) ==
  /\ patchPc = "patching"
  /\ proposal' = patch
  /\ IF ~patch.given \/ patch.patch_diff.empty
       THEN patchPc' = "done" /\ patchStatus' = "no_patch"
       ELSE IF patchCase.skip_review
         THEN patchPc' = "done" /\ patchStatus' = "patched_needs_review"
         ELSE patchPc' = "reviewing" /\ patchStatus' = "none"
  /\ UNCHANGED <<patchCase, applied, review>>
  /\ UNCHANGED notPatch

\* runPatchAgent or the reviewer's createMessage throws: processOne rejects.
AgentThrows ==
  /\ patchPc \in {"patching", "reviewing"}
  /\ patchPc' = "rejected"
  /\ UNCHANGED <<patchCase, proposal, applied, review, patchStatus>>
  /\ UNCHANGED notPatch

\* runReviewAgent returns and processOne sets the status.
ReviewReturns(approved, issues, retest) ==
  /\ review' = ReviewOf(approved, issues, retest, patchCase.has_exploit)
  /\ patchStatus' = StatusOfReview(review')
  /\ patchPc' = "done"

\* The reviewer's model answers (approved is data.approved === true, false
\* when the answer is not JSON); runReviewAgent goes on to the retest.
ReviewerReplies(approved) ==
  /\ patchPc = "reviewing"
  /\ IF ~patchCase.has_exploit
       THEN /\ applied' = applied
            /\ ReviewReturns(approved, {}, "undefined")
       ELSE /\ applied' = applyPatchToSource(patchCase.source, proposal.patch_diff)
            /\ IF ~applied'.applied
                 THEN ReviewReturns(FALSE, {UnmatchedContext}, "undefined")
                 ELSE /\ review' = PatchReview(approved, {}, "undefined")
                      /\ patchPc' = "retesting"
                      /\ patchStatus' = "none"
  /\ UNCHANGED <<patchCase, proposal>>
  /\ UNCHANGED notPatch

\* retestExploitInSandbox returns: the exploit's exit code decides, and no
\* sandbox or a failure inside it gives undefined.
RetestReturns(retest) ==
  /\ patchPc = "retesting"
  /\ ReviewReturns(review.approved, review.issues, retest)
  /\ UNCHANGED <<patchCase, proposal, applied>>
  /\ UNCHANGED notPatch

\* ======================================================================
\* Part VIII: sandbox sessions (sandbox/types.ts, tryExploitInSandbox,
\* retestExploitInSandbox)
\* ======================================================================

\* How the docker child of execFile ended: it exited with a code, Node killed
\* it when the timeout elapsed (error.killed), or it ended without an exit
\* code (error.code is null).
ChildEnd(kind, code) == [kind |-> kind, code |-> code]

Exited(code) == ChildEnd("exited", code)
KilledAtTimeout == ChildEnd("killed", 0)
NoExitCode == ChildEnd("signalled", 0)

\* runDocker: the exitCode its promise resolves with.
runDocker(end) ==
  IF end.kind = "killed" THEN -1
  ELSE IF end.kind = "exited" THEN end.code
  ELSE 1

ExecResult(exitCode, timedOut) == [exit_code |-> exitCode, timed_out |-> timedOut]

NoExec == ExecResult(-1, FALSE)

ExitCodeOf_Raw(timedOut, exitCode) == exitCode

\* exit_code: timedOut ? 124 : result.exitCode
ExitCodeOf(timedOut, exitCode) == IF timedOut THEN 124 ELSE exitCode

dockerExec(end) ==
  LET timedOut == runDocker(end) = -1
  IN ExecResult(ExitCodeOf(timedOut, runDocker(end)), timedOut)

\* writeFile calls of the try block: exploit.ts for the red team, patched.rs
\* and exploit.ts for the retest.
WritesOf(caller) == IF caller = "red" THEN 1 ELSE 2

\* What the call does when its try block throws: tryExploitInSandbox has no
\* catch, retestExploitInSandbox catches and returns undefined.
OnThrow(caller) == IF caller = "red" THEN "throw" ELSE "return"

\* What the call returns without a sandbox, and what its catch returns.
NoSandbox(caller) == IF caller = "red" THEN "not_executed" ELSE "undefined"

Caught(caller) == IF caller = "red" THEN "thrown" ELSE "undefined"

\* { executed: true, exitCode } for the red team, exit_code !== 0 for the
\* retest.
ReturnOf(caller, result) ==
  IF caller = "red" THEN "executed" ELSE RetestPassed(result.exit_code)

\* docker rm -f removes the container when it succeeds.
Removal(container, exitCode) == IF exitCode = 0 THEN "removed" ELSE container

\* The finally block runs on every way out of the try block.
AfterTry_ReturnOnly(how) == IF how = "return" THEN "destroying" ELSE "threw"

AfterTry(how) == "destroying"

\* destroy ignores what docker rm -f resolved with.
DestroyRaises_OnFailure(exitCode) == exitCode # 0

DestroyRaises(exitCode) == FALSE

\* ------------------------------------------------------------------- Init
SandboxIdle ==
  /\ sbPc = "idle"
  /\ sbCaller = "none"
  /\ sbSession = "none"
  /\ sbWrites = 0
  /\ sbElapsed = 0
  /\ sbHitCap = FALSE
  /\ sbExec = NoExec
  /\ sbPending = "none"
  /\ sbDestroys = 0
  /\ sbRaised = FALSE
  /\ sbContainer = "none"
  /\ sbResult = "none"

\* ---------------------------------------------------------------- actions
\* tryExploitInSandbox(exploitCode) or retestExploitInSandbox(patched,
\* exploitCode) up to await isSandboxAvailable().
CallSandbox(caller) ==
  /\ sbPc = "idle"
  /\ sbCaller' = caller
  /\ sbPc' = "probing"
  /\ UNCHANGED <<sbSession, sbWrites, sbElapsed, sbHitCap, sbExec, sbPending,
                 sbDestroys, sbRaised, sbContainer, sbResult>>
  /\ UNCHANGED notSandbox

\* isSandboxAvailable and isSandboxImageBuilt: exitCode === 0, and the call
\* returns without a sandbox otherwise.
DockerProbed(end) ==
  /\ sbPc \in {"probing", "inspecting"}
  /\ IF runDocker(end) # 0
       THEN sbPc' = "returned" /\ sbResult' = NoSandbox(sbCaller)
       ELSE /\ sbPc' = IF sbPc = "probing" THEN "inspecting" ELSE "creating"
            /\ UNCHANGED sbResult
  /\ UNCHANGED <<sbCaller, sbSession, sbWrites, sbElapsed, sbHitCap, sbExec,
                 sbPending, sbDestroys, sbRaised, sbContainer>>
  /\ UNCHANGED notSandbox

\* createSandbox: docker run ended; it throws unless exitCode is 0, and the
\* call, which awaits it outside its try block, throws with it.
SandboxCreated(end) ==
  /\ sbPc = "creating"
  /\ IF runDocker(end) # 0
       THEN /\ sbPc' = "threw"
            /\ UNCHANGED <<sbSession, sbWrites, sbContainer>>
       ELSE /\ sbPc' = "writing"
            /\ sbSession' = "live"
            /\ sbContainer' = "running"
            /\ sbWrites' = WritesOf(sbCaller)
  /\ UNCHANGED <<sbCaller, sbElapsed, sbHitCap, sbExec, sbPending, sbDestroys,
                 sbRaised, sbResult>>
  /\ UNCHANGED notSandbox

\* The try block is left by return or by throw.
LeaveTry(how, value) ==
  /\ sbPending' = how
  /\ sbResult' = value
  /\ sbPc' = AfterTry(how)

\* session.writeFile resolves or rejects.
FileWritten(ok) ==
  /\ sbPc = "writing"
  /\ IF ok
       THEN /\ sbWrites' = sbWrites - 1
            /\ sbPc' = IF sbWrites = 1 THEN "executing" ELSE "writing"
            /\ UNCHANGED <<sbPending, sbResult>>
       ELSE /\ LeaveTry(OnThrow(sbCaller), Caught(sbCaller))
            /\ UNCHANGED sbWrites
  /\ UNCHANGED <<sbCaller, sbSession, sbElapsed, sbHitCap, sbExec, sbDestroys,
                 sbRaised, sbContainer>>
  /\ UNCHANGED notSandbox

\* Time passes while docker exec runs.
ExecTick ==
  /\ sbPc = "executing"
  /\ sbElapsed < ExecCap
  /\ sbElapsed' = sbElapsed + 1
  /\ sbHitCap' = (sbElapsed' = ExecCap)
  /\ UNCHANGED <<sbPc, sbCaller, sbSession, sbWrites, sbExec, sbPending,
                 sbDestroys, sbRaised, sbContainer, sbResult>>
  /\ UNCHANGED notSandbox

\* session.exec resolves: the command ended before the cap, or the cap
\* elapsed and execFile killed the child.
ExecEnded(end) ==
  /\ sbPc = "executing"
  /\ (end.kind = "killed") = sbHitCap
  /\ sbExec' = dockerExec(end)
  /\ LeaveTry("return", ReturnOf(sbCaller, sbExec'))
  /\ UNCHANGED <<sbCaller, sbSession, sbWrites, sbElapsed, sbHitCap,
                 sbDestroys, sbRaised, sbContainer>>
  /\ UNCHANGED notSandbox

\* session.exec rejects: docker could not be started.
ExecRejected ==
  /\ sbPc = "executing"
  /\ ~sbHitCap
  /\ LeaveTry(OnThrow(sbCaller), Caught(sbCaller))
  /\ UNCHANGED <<sbCaller, sbSession, sbWrites, sbElapsed, sbHitCap, sbExec,
                 sbDestroys, sbRaised, sbContainer>>
  /\ UNCHANGED notSandbox

\* await session.destroy() in the finally block: docker rm -f ended, and the
\* call returns or throws as the try block left it.
Destroyed(end) ==
  /\ sbPc = "destroying"
  /\ sbSession' = "destroyed"
  /\ sbDestroys' = sbDestroys + 1
  /\ sbRaised' = DestroyRaises(runDocker(end))
  /\ sbContainer' = Removal(sbContainer, runDocker(end))
  /\ sbPc' = IF sbRaised' \/ sbPending = "throw" THEN "threw" ELSE "returned"
  /\ UNCHANGED <<sbCaller, sbWrites, sbElapsed, sbHitCap, sbExec, sbPending,
                 sbResult>>
  /\ UNCHANGED notSandbox

\* session.destroy() once more on the destroyed session.
DestroyedAgain(end) ==
  /\ sbPc \in {"returned", "threw"}
  /\ sbSession = "destroyed"
  /\ sbDestroys < MaxDestroys
  /\ sbDestroys' = sbDestroys + 1
  /\ sbRaised' = DestroyRaises(runDocker(end))
  /\ sbContainer' = Removal(sbContainer, runDocker(end))
  /\ UNCHANGED <<sbPc, sbCaller, sbSession, sbWrites, sbElapsed, sbHitCap,
                 sbExec, sbPending, sbResult>>
  /\ UNCHANGED notSandbox

\* ======================================================================
\* Part IX: diff scan (run-scan.ts)
\* ======================================================================

\* DiffScanOptions: whether changedFiles is present, and its paths.
DiffScanOptions(given, changedFiles) ==
  [given |-> given, changedFiles |-> changedFiles]

\* ScanResult; agent_runs by the number of runs, findings by their files.
ScanResult(started, completed, threatModel, agentRuns, files) ==
  [started_at |-> started, completed_at |-> completed,
   threat_model |-> threatModel, agent_runs |-> agentRuns, findings |-> files]

NoScanResult == ScanResult(0, 0, NoInfo, 0, {})

\* normalized.add(absolutePath) when stat says it is a file; the Set keeps
\* one entry per path, in insertion order.
Normalized(changed, filePath, stat) ==
  IF stat = "file" /\ \A k \in 1..Len(changed) : changed[k] # filePath
    THEN Append(changed, filePath)
    ELSE changed

IsEmptySelection_Never(changedFiles) == FALSE

\* resolvedDiff.changedFiles.length === 0
IsEmptySelection(changedFiles) == Len(changedFiles) = 0

\* .filter((finding) => changedSet.has(path.resolve(finding.file)))
InChangedSet(files, changedFiles) ==
  {f \in files : \E k \in 1..Len(changedFiles) : changedFiles[k] = f}

\* ------------------------------------------------------------------- Init
ScanIdle ==
  /\ scanPc = "idle"
  /\ scanGiven = << >>
  /\ scanChanged = << >>
  /\ scanNow = 0
  /\ scanStarted = 0
  /\ scanThreat = NoInfo
  /\ scanTasks = 0
  /\ scanResult = NoScanResult
  /\ scanGit = "none"

\* ---------------------------------------------------------------- actions
\* runDiffScan(rootPath, options) up to its first await.
RunDiffScan(options) ==
  /\ scanPc = "idle"
  /\ scanGiven' = options.changedFiles
  /\ scanPc' = IF ~options.given THEN "resolving"
               ELSE IF options.changedFiles = << >> THEN "loading"
               ELSE "normalizing"
  /\ UNCHANGED <<scanChanged, scanNow, scanStarted, scanThreat, scanTasks,
                 scanResult,
                 scanGit>>
  /\ UNCHANGED notScan

\* normalizeChangedFiles: fs.stat of the next path resolves or throws.
StatReturns(stat) ==
  /\ scanPc = "normalizing"
  /\ scanChanged' = Normalized(scanChanged, Head(scanGiven), stat)
  /\ scanGiven' = Tail(scanGiven)
  /\ scanPc' = IF scanGiven' = << >> THEN "loading" ELSE "normalizing"
  /\ UNCHANGED <<scanNow, scanStarted, scanThreat, scanTasks, scanResult,
                 scanGit>>
  /\ UNCHANGED notScan

\* [...new Set([...tracked, ...untracked])]
RECURSIVE Unique(_)
Unique(lines) ==
  IF lines = << >> THEN << >>
  ELSE LET front == Unique(SubSeq(lines, 1, Len(lines) - 1))
           last == lines[Len(lines)]
       IN IF \E k \in 1..Len(front) : front[k] = last
            THEN front ELSE Append(front, last)

\* runGit returns the lines of git diff, then those of git ls-files; the
\* paths of both are then stat'ed one by one (toExistingAbsolutePaths).
GitReturns(lines) ==
  /\ scanPc \in {"resolving", "listing"}
  /\ IF scanPc = "resolving"
       THEN scanGiven' = lines /\ scanPc' = "listing"
       ELSE /\ scanGiven' = Unique(scanGiven \o lines)
            /\ scanPc' = IF scanGiven' = << >> THEN "loading" ELSE "normalizing"
  /\ UNCHANGED <<scanChanged, scanNow, scanStarted, scanThreat, scanTasks,
                 scanResult, scanGit>>
  /\ UNCHANGED notScan

\* execFile of git fails: runGit throws, and neither resolveDiffSelection nor
\* runDiffScan catches it.
GitFails ==
  /\ scanPc \in {"resolving", "listing"}
  /\ scanGit' = "failed"
  /\ scanPc' = "threw"
  /\ UNCHANGED <<scanGiven, scanChanged, scanNow, scanStarted, scanThreat,
                 scanTasks, scanResult>>
  /\ UNCHANGED notScan

\* resolveDiffSelection or loadOrCreateThreatModel throws.
DiffScanThrows ==
  /\ scanPc \in {"resolving", "loading"}
  /\ scanPc' = "threw"
  /\ UNCHANGED <<scanGiven, scanChanged, scanNow, scanStarted, scanThreat,
                 scanTasks, scanResult,
                 scanGit>>
  /\ UNCHANGED notScan

\* The clock moves on.
ScanTick ==
  /\ scanNow < MaxScanClock
  /\ scanNow' = scanNow + 1
  /\ UNCHANGED <<scanPc, scanGiven, scanChanged, scanStarted, scanThreat,
                 scanTasks, scanResult,
                 scanGit>>
  /\ UNCHANGED notScan

\* loadOrCreateThreatModel returns: started is read from the clock and the
\* scan returns at once for an empty selection, the clock being read again
\* later by passed ticks; otherwise the scanners are dispatched.
ThreatModelLoaded(threatModel, passed) ==
  /\ scanPc = "loading"
  /\ scanNow + passed <= MaxScanClock
  /\ scanThreat' = threatModel
  /\ scanStarted' = scanNow
  /\ IF IsEmptySelection(scanChanged)
       THEN /\ scanNow' = scanNow + passed
            /\ scanResult' = ScanResult(scanStarted', scanNow', threatModel, 0, {})
            /\ scanPc' = "returned"
            /\ UNCHANGED scanTasks
       ELSE /\ passed = 0
            /\ scanTasks' = NumScanners
            /\ scanPc' = "dispatching"
            /\ UNCHANGED <<scanNow, scanResult>>
  /\ UNCHANGED <<scanGiven, scanChanged, scanGit>>
  /\ UNCHANGED notScan

\* dispatchScanners returns the runs of its tasks and their findings, which
\* are aggregated and cut down to the changed files.
ScannersReturn(files) ==
  /\ scanPc = "dispatching"
  /\ scanResult' = ScanResult(scanStarted, scanNow, scanThreat, scanTasks,
                              InChangedSet(files, scanChanged))
  /\ scanPc' = "returned"
  /\ UNCHANGED <<scanGiven, scanChanged, scanNow, scanStarted, scanThreat,
                 scanTasks,
                 scanGit>>
  /\ UNCHANGED notScan

\* ======================================================================
\* Part X: finding identity (agents/scanner/base.ts, llm-scanner.ts,
\* llm/parser.ts)
\* ======================================================================

\* `${input.scannerId}|${input.vulnClass}|${input.file}|${input.line}`
IdSeed(scannerId, vulnClass, file, line) ==
  <<scannerId, "|", vulnClass, "|", file, "|", line>>

\* The bytes of the strings of the model, as one number each.
SeedCode(text) ==
  CASE text = "scanner.a" -> 1 [] text = "scanner.b" -> 2
    [] text = "missing_signer_check" -> 3 [] text = "arbitrary_cpi" -> 4
    [] text = "/repo/a.rs" -> 5 [] text = "/repo/b.rs" -> 6
    [] text = "a.rs" -> 7
    [] OTHER -> 0

\* createHash("sha256").update(idSeed).digest("hex").slice(0, 16): a fixed
\* function of the seed into a finite range, here of IdSpace values.
Sha256Hex16(seed) ==
  (SeedCode(seed[1]) * 7 + SeedCode(seed[3]) * 5 + SeedCode(seed[5]) * 3
     + seed[7]) % IdSpace

ScannerFinding(id, scannerId, vulnClass, severity, file, line) ==
  [id |-> id, scanner_id |-> scannerId, vuln_class |-> vulnClass,
   severity |-> severity, file |-> file, line |-> line]

makeFinding(scannerId, vulnClass, severity, file, line) ==
  ScannerFinding(Sha256Hex16(IdSeed(scannerId, vulnClass, file, line)),
                 scannerId, vulnClass, severity, file, line)

\* RawFinding of the model's answer: the fields validateAndConvert reads.
RawFinding(vulnClass, severity, file, line) ==
  [vuln_class |-> vulnClass, severity |-> severity, file |-> file, line |-> line]

VALID_VULN_CLASSES == {"missing_signer_check", "arbitrary_cpi"}

\* validateAndConvert: the findings of one raw entry (none when it is invalid).
validateAndConvert(raw, scannerId) ==
  IF \/ raw.vuln_class \notin VALID_VULN_CLASSES
     \/ raw.severity \notin {"CRITICAL", "HIGH", "MEDIUM", "LOW"}
     \/ raw.file = ""
     \/ raw.line < 1
    THEN {}
    ELSE {makeFinding(scannerId, raw.vuln_class, raw.severity, raw.file, raw.line)}

\* findings.push({ ...finding, file: filePath })
WithFile(finding, filePath) == [finding EXCEPT !.file = filePath]

\* ------------------------------------------------------------------- Init
FindingsIdle == produced = {}

\* ---------------------------------------------------------------- actions
\* A pattern scanner pushes makeFinding({...}) for a file it read.
PatternScannerFinds(scannerId, vulnClass, severity, file, line) ==
  /\ Cardinality(produced) < MaxProduced
  /\ produced' = produced \cup {makeFinding(scannerId, vulnClass, severity, file, line)}
  /\ UNCHANGED notFindings

\* runLlmScanner: the model answered for filePath with one raw finding, which
\* is parsed and pushed with its file replaced by filePath.
LlmScannerFinds(scannerId, filePath, raw) ==
  /\ Cardinality(produced) < MaxProduced
  /\ produced' = produced \cup { WithFile(finding, filePath) :
                                   finding \in validateAndConvert(raw, scannerId) }
  /\ UNCHANGED notFindings

\* ======================================================================
\* Part XI: cancellation of a dispatch (dispatcher.ts)
\* ======================================================================

\* ------------------------------------------------------------------- Init
CancelIdle == cancelSignalled = FALSE /\ queueAtCancel = << >>

\* ---------------------------------------------------------------- actions
\* The orchestrator signals a cancel while dispatchScanners is running.
\* dispatchScanners(target) takes no token and reads no flag, so the signal
\* changes nothing of the dispatcher; the queue of that moment is recorded.
SignalCancel ==
  /\ pcMain \in {"loop", "awaiting"}
  /\ ~cancelSignalled
  /\ cancelSignalled' = TRUE
  /\ queueAtCancel' = queue
  /\ UNCHANGED notCancel

\* ======================================================================
\* Part XII: patch pipeline (patch-pipeline.ts, runPatchPipeline)
\* ======================================================================

\* An AdversarialResult by its place in the input and its judge?.verdict
\* ("none" without a judge).
Judged(id, verdict) == [id |-> id, verdict |-> verdict]

PatchResult(adversarial, status) == [adversarial |-> adversarial, status |-> status]

PatchEligible_All(input) == [k \in 1..Len(input) |-> k]

\* adversarialResults.filter(v === "confirmed" || v === "likely"), as the
\* places of the results kept.
PatchEligible(input) ==
  SelectSeq([k \in 1..Len(input) |-> k],
            LAMBDA k : input[k].verdict \in {"confirmed", "likely"})

\* ------------------------------------------------------------------- Init
PatchPipelineIdle ==
  /\ ppPc = "idle"
  /\ ppMax = 0
  /\ ppSkip = FALSE
  /\ ppIn = << >>
  /\ ppQueue = << >>
  /\ ppRunning = {}
  /\ ppStage = << >>
  /\ ppResults = << >>

\* ---------------------------------------------------------------- actions
\* The outer loop of runPatchPipeline from its top to its next await, its
\* return, or for ever; processNext calls processOne, which awaits
\* runPatchAgent.
PatchLoop(q, inFlight, stages, limit) ==
  LET n == Started(q, inFlight, limit)
      started == { q[k] : k \in 1..n }
  IN /\ ppQueue' = SubSeq(q, n + 1, Len(q))
     /\ ppRunning' = inFlight \cup started
     /\ ppStage' = [i \in DOMAIN stages |->
                      IF i \in started THEN "patching" ELSE stages[i]]
     /\ ppPc' = IF Len(q) = 0 /\ inFlight = {} THEN "returned"
                ELSE IF inFlight \cup started = {} THEN "spinning"
                ELSE "awaiting"

\* runPatchPipeline(adversarialResults, options) up to its first await.
CallPatchPipeline(input, maxConcurrent, skipReview) ==
  /\ ppPc = "idle"
  /\ ppIn' = input
  /\ ppMax' = maxConcurrent
  /\ ppSkip' = skipReview
  /\ ppResults' = << >>
  /\ PatchLoop(PatchEligible(input), {}, [i \in 1..Len(input) |-> "none"],
               maxConcurrent)
  /\ UNCHANGED notPatchPipeline

\* The outer while loop with nothing to start and nothing to await.
PatchPipelineSpins ==
  /\ ppPc = "spinning"
  /\ UNCHANGED vars

\* The task promise settles: the result is pushed, .finally removes the
\* promise from running, and the outer loop resumes from Promise.race.
PatchSettle(i, stage, status) ==
  /\ ppResults' = Append(ppResults, PatchResult(ppIn[i], status))
  /\ PatchLoop(ppQueue, ppRunning \ {i}, [ppStage EXCEPT ![i] = stage], ppMax)
  /\ UNCHANGED <<ppMax, ppSkip, ppIn>>
  /\ UNCHANGED notPatchPipeline

\* runPatchAgent returns undefined, an empty patch_diff or a diff.
PatchProposed(i, patch) ==
  /\ ppPc = "awaiting"
  /\ i \in ppRunning
  /\ ppStage[i] = "patching"
  /\ IF ~patch.given \/ patch.patch_diff.empty
       THEN PatchSettle(i, "done", "no_patch")
       ELSE IF ppSkip
         THEN PatchSettle(i, "done", "patched_needs_review")
         ELSE /\ ppStage' = [ppStage EXCEPT ![i] = "reviewing"]
              /\ UNCHANGED <<ppPc, ppMax, ppSkip, ppIn, ppQueue, ppRunning,
                             ppResults>>
              /\ UNCHANGED notPatchPipeline

\* runReviewAgent returns its review.
PatchReviewed(i, approved) ==
  /\ ppPc = "awaiting"
  /\ i \in ppRunning
  /\ ppStage[i] = "reviewing"
  /\ PatchSettle(i, "done", StatusOfReview(PatchReview(approved, {}, "undefined")))

\* runPatchAgent or runReviewAgent throws: processOne rejects and .catch
\* pushes no_patch.
PatchTaskThrows(i) ==
  /\ ppPc = "awaiting"
  /\ i \in ppRunning
  /\ ppStage[i] \in {"patching", "reviewing"}
  /\ PatchSettle(i, "thrown", "no_patch")

\* ======================================================================
\* Part XIII: LLM client (part_016, LlmClient)
\* ======================================================================

\* How one fetchWithTimeout ends: fetch rejects (network error, or abort at
\* the request timeout), or a response with a status arrives whose body
\* can be read as JSON or not.
FetchEnd(kind, status, parsable) ==
  [kind |-> kind, status |-> status, parsable |-> parsable]

NoFetch == FetchEnd("none", 0, FALSE)
NetworkError == FetchEnd("network", 0, FALSE)

isRetryableStatus(status) == status \in {429, 500, 502, 503, 529}

\* response.ok
Ok2xx(status) == status >= 200 /\ status <= 299

Exhausted_OneMore(attempt, maxRetries) == attempt > maxRetries

\* attempt >= this.maxRetries
Exhausted(attempt, maxRetries) == attempt >= maxRetries

\* [request.model, ...this.fallbackModels.filter((m) => m !== request.model)]
ModelsToTry(model, fallbackModels) ==
  <<model>> \o SelectSeq(fallbackModels, LAMBDA f : f # model)

\* ------------------------------------------------------------------- Init
LlmIdle ==
  /\ llmPc = "idle"
  /\ llmMaxRetries = 0
  /\ llmModel = "none"
  /\ llmFallbacks = << >>
  /\ llmModels = << >>
  /\ llmAt = 0
  /\ llmAttempt = 0
  /\ llmLast = NoFetch
  /\ llmSent = << >>
  /\ llmThrown = NoFetch

\* ---------------------------------------------------------------- actions
\* createMessage(request) of a client built with maxRetries and
\* fallbackModels, up to the first fetch. Without an API key every
\* executeWithRetry throws at requireApiKey and createMessage throws the
\* last of these errors.
CreateMessage(model, fallbackModels, maxRetries, hasKey) ==
  /\ llmPc = "idle"
  /\ llmModel' = model
  /\ llmFallbacks' = fallbackModels
  /\ llmMaxRetries' = maxRetries
  /\ llmModels' = ModelsToTry(model, fallbackModels)
  /\ llmAttempt' = 0
  /\ llmLast' = NoFetch
  /\ IF hasKey
       THEN /\ llmPc' = "fetching"
            /\ llmAt' = 1
            /\ llmSent' = <<model>>
            /\ llmThrown' = NoFetch
       ELSE /\ llmPc' = "threw"
            /\ llmAt' = Len(ModelsToTry(model, fallbackModels))
            /\ llmSent' = << >>
            /\ llmThrown' = FetchEnd("no_api_key", 0, FALSE)
  /\ UNCHANGED notLlm

\* executeWithRetry throws `end`: the catch of createMessage rethrows a 401,
\* goes on with the next model, or throws lastError after the last one.
ModelFailed(end) ==
  /\ llmLast' = end
  /\ IF (end.kind = "response" /\ end.status = 401) \/ llmAt = Len(llmModels)
       THEN /\ llmPc' = "threw"
            /\ llmThrown' = end
            /\ UNCHANGED <<llmAt, llmAttempt, llmSent>>
       ELSE /\ llmPc' = "fetching"
            /\ llmAt' = llmAt + 1
            /\ llmAttempt' = 0
            /\ llmSent' = Append(llmSent, llmModels[llmAt + 1])
            /\ UNCHANGED llmThrown
  /\ UNCHANGED <<llmMaxRetries, llmModel, llmFallbacks, llmModels>>
  /\ UNCHANGED notLlm

\* attempt++, backoff, await sleep(...)
Backoff(end) ==
  /\ llmLast' = end
  /\ llmPc' = "sleeping"
  /\ llmAttempt' = llmAttempt + 1
  /\ UNCHANGED <<llmMaxRetries, llmModel, llmFallbacks, llmModels, llmAt,
                 llmSent, llmThrown>>
  /\ UNCHANGED notLlm

\* fetchWithTimeout rejects.
FetchFails ==
  /\ llmPc = "fetching"
  /\ IF Exhausted(llmAttempt, llmMaxRetries)
       THEN ModelFailed(NetworkError)
       ELSE Backoff(NetworkError)

\* fetchWithTimeout returns a response and its body has been read.
FetchAnswers(status, parsable) ==
  /\ llmPc = "fetching"
  /\ LET end == FetchEnd("response", status, parsable) IN
       IF Ok2xx(status)
         THEN IF parsable
                THEN /\ llmPc' = "returned"
                     /\ llmLast' = end
                     /\ UNCHANGED <<llmMaxRetries, llmModel, llmFallbacks,
                                    llmModels, llmAt, llmAttempt, llmSent,
                                    llmThrown>>
                     /\ UNCHANGED notLlm
                ELSE ModelFailed(end)
         ELSE IF ~isRetryableStatus(status)
                   \/ Exhausted(llmAttempt, llmMaxRetries)
                THEN ModelFailed(end)
                ELSE Backoff(end)

\* sleep(...) resolves and the loop sends the next request.
SleepEnds ==
  /\ llmPc = "sleeping"
  /\ llmPc' = "fetching"
  /\ llmSent' = Append(llmSent, llmModels[llmAt])
  /\ UNCHANGED <<llmMaxRetries, llmModel, llmFallbacks, llmModels, llmAt,
                 llmAttempt, llmLast, llmThrown>>
  /\ UNCHANGED notLlm

\* ======================================================================
\* Specifications
\* ======================================================================

\* ------------------------------------------------------------ input sets
P(str) == StrVal(str)

AllOptions ==
  { Options(t, a, i) :
      t \in { Undef, Token },
      a \in { NoPaths, << >>, << <<"/", "a">> >>, << <<" ", "/", "k">>, << >> >>,
              << <<"/", "z">> >> },
      i \in BOOLEAN }
  \cup { Options(<< >>, NoPaths, TRUE), Options(<< >>, << <<"/", "a">> >>, FALSE) }

LifecycleOptions ==
  { Options(Token, << <<"/", "a">> >>, FALSE), Options(Undef, NoPaths, FALSE) }

Headers ==
  { Undef, Bearer \o Token, Bearer \o <<"s", "u">>, Bearer \o <<"s">>, Bearer,
    Bearer \o <<"s", "t", "x">>, <<"b", "e", "a", "r", "e", "r", " ">> \o Token,
    Token }

TargetInputs ==
  { UndefVal, NumVal, P(<< >>),
    P(<<"/", "a">>), P(<<"/", "a", "/", "b">>), P(<<"/", "a", "b">>),
    P(<<"/", "a", "/", "l">>), P(<<"/", "k">>), P(<<"/", "c">>),
    P(<<"/", "a", "/", "f">>), P(<<"/", "z">>),
    P(<<"/", "a", "/", ".", ".", "/", "c">>), P(<<"b">>),
    P(<<"/", "a", "/">>), P(<<"/">>) }

Good == P(<<"/", "a">>)
GoodBody == Json(Payload(Good, "undefined", "undefined", "undefined", "undefined"))

Bodies ==
  { Body("too_large", NoPayload), Body("invalid_json", NoPayload),
    Body("empty", NoPayload), Body("null", NoPayload) }
  \cup { Json(Payload(tp, "undefined", "undefined", "undefined", "undefined")) :
           tp \in TargetInputs }
  \cup { Json(Payload(Good, m, "undefined", "undefined", "undefined")) :
           m \in {"full", "diff", "bogus"} }
  \cup { Json(Payload(Good, "diff", "main", "head", "array")),
         Json(Payload(Good, "undefined", "undefined", "head", "undefined")),
         Json(Payload(Good, "undefined", "undefined", "undefined", "string")),
         Json(Payload(Good, "undefined", "undefined", "undefined", "zero")),
         Json(Payload(UndefVal, "bogus", "undefined", "head", "string")) }

Requests ==
  { Request(m, r, 1, h, GoodBody) :
      m \in {"GET", "POST"}, r \in {"healthz", "runs", "trigger"}, h \in Headers }
  \cup { Request("POST", "trigger", 0, Bearer \o Token, b) : b \in Bodies }
  \cup { Request("GET", "run", id, h, GoodBody) :
           id \in {0, 1}, h \in {Undef, Bearer \o Token} }
  \cup { Request("GET", "other", 0, h, GoodBody) : h \in {Undef, Bearer \o Token} }

LifecycleRequests ==
  { Request("POST", "trigger", 0, Bearer \o Token, GoodBody),
    Request("POST", "trigger", 0, Bearer \o Token,
            Json(Payload(P(<<"/", "c">>), "undefined", "undefined", "undefined",
                         "undefined"))),
    Request("POST", "trigger", 0, Undef, GoodBody),
    Request("POST", "trigger", 0, Bearer \o Token,
            Json(Payload(Good, "undefined", "undefined", "undefined", "zero"))),
    Request("GET", "runs", 0, Bearer \o Token, GoodBody),
    Request("GET", "run", 1, Bearer \o Token, GoodBody) }

\* --------------------------------------------------------- specifications
DispatchInit ==
  DispatchIdle /\ DaemonIdle /\ AggregateIdle /\ ThreatIdle /\ CacheIdle
  /\ AdversarialIdle
  /\ PatchIdle
  /\ SandboxIdle
  /\ ScanIdle
  /\ FindingsIdle
  /\ CancelIdle
  /\ StartupIdle
  /\ PatchPipelineIdle
  /\ JudgeIdle
  /\ LlmIdle

DaemonInit ==
  DispatchIdle /\ DaemonIdle /\ AggregateIdle /\ ThreatIdle /\ CacheIdle
  /\ AdversarialIdle
  /\ PatchIdle
  /\ SandboxIdle
  /\ ScanIdle
  /\ FindingsIdle
  /\ CancelIdle
  /\ StartupIdle
  /\ PatchPipelineIdle
  /\ JudgeIdle
  /\ LlmIdle

DispatchNext ==
  \/ DispatchStart
  \/ RunTask
  \/ AwaitRace
  \/ Spin
  \/ Return
  \/ Resume
  \/ \E i \in Tasks, s \in Settlements : ExecSettles(i, s)
  \/ \E i \in Tasks : TimerFires(i)
  \/ \E i \in Tasks : Finalize(i)

SpecDispatch == DispatchInit /\ [][DispatchNext]_vars

\* The event loop runs every ready callback, and every armed timer fires.
FairSpecDispatch ==
  /\ SpecDispatch
  /\ WF_vars(DispatchStart \/ RunTask \/ AwaitRace \/ Return \/ Resume)
  /\ WF_vars(\E i \in Tasks : TimerFires(i))
  /\ WF_vars(\E i \in Tasks : Finalize(i))

\* The dispatcher with a cancel signalled at any moment of the dispatch.
DispatchCancelNext == DispatchNext \/ SignalCancel

SpecDispatchCancel == DispatchInit /\ [][DispatchCancelNext]_vars


\* Run history: few kinds of request, many runs, no request history.
DaemonNext ==
  \/ \E o \in LifecycleOptions : StartDaemon(o)
  \/ Tick
  \/ \E req \in LifecycleRequests : HandleRequest(req, MaxRuns, FALSE)
  \/ RunMicrotask
  \/ \E id \in 1..MaxRuns : ScanReturns(id)
  \/ \E id \in 1..MaxRuns, t \in ScanThrown : ScanThrows(id, t)
  \/ \E id \in 1..MaxRuns : ScanSpins(id)
  \/ Spin

SpecDaemon == DaemonInit /\ [][DaemonNext]_vars

\* The event loop runs every queued microtask, and a scan that can settle
\* does.
FairSpecDaemon ==
  /\ SpecDaemon
  /\ WF_vars(RunMicrotask)
  /\ WF_vars(\E id \in 1..MaxRuns :
               ScanReturns(id) \/ \E t \in ScanThrown : ScanThrows(id, t))

\* Requests: every kind of request and configuration, few runs, with the
\* last request and its response kept as history. The scans of this
\* specification return or spin; the run-history specification has them
\* throw too.
RequestNext ==
  \/ \E o \in AllOptions : StartDaemon(o)
  \/ \E req \in Requests : HandleRequest(req, MaxProbeRuns, TRUE)
  \/ RunMicrotask
  \/ \E id \in 1..MaxProbeRuns : ScanReturns(id)
  \/ \E id \in 1..MaxProbeRuns : ScanSpins(id)
  \/ Spin

SpecRequests == DaemonInit /\ [][RequestNext]_vars

\* Aggregator: every bounded findings list, aggregated, then aggregated
\* again, extended or permuted.
AggregateInit ==
  /\ DispatchIdle
  /\ DaemonIdle
  /\ ThreatIdle
  /\ CacheIdle
  /\ AdversarialIdle
  /\ PatchIdle
  /\ SandboxIdle
  /\ ScanIdle
  /\ FindingsIdle
  /\ CancelIdle
  /\ StartupIdle
  /\ PatchPipelineIdle
  /\ JudgeIdle
  /\ LlmIdle
  /\ pcAgg = "input"
  /\ aggIn \in FindingLists
  /\ aggPrev = << >>
  /\ aggOut = << >>

AggregateNext ==
  \/ Aggregate
  \/ AggregateAgain
  \/ \E more \in NewScannerLists : AggregateMore(more)
  \/ \E permuted \in Reorderings(aggIn) : AggregatePermuted(permuted)

SpecAggregate == AggregateInit /\ [][AggregateNext]_vars

\* Threat-model store: calls for one repo, overlapping in any way.
ThreatNext ==
  \/ \E c \in Calls, h \in Fingerprints : CallThreatModel(c, h)
  \/ \E c \in Calls : LoadStore(c)
  \/ \E c \in Calls : WriteStore(c)

SpecThreat == DaemonInit /\ [][ThreatNext]_vars

\* Scan cache: puts, lookups and invalidations on one ScanCache object.
CacheNext ==
  \/ \E t \in Triples, ttl \in Ttls : Put(t, ttl)
  \/ \E t \in Triples : Lookup(t)
  \/ \E sc \in CacheScanners : InvalidateScanner(sc)
  \/ InvalidateAll
  \/ CacheTick

SpecCache == DaemonInit /\ [][CacheNext]_vars

\* Adversarial pipeline: one call on every bounded findings list, the
\* roles answering or throwing in any order, then the verdict filter.
DebateInputs ==
  { input \in [1..NumDebates -> { DebatedFinding(i, "HIGH", c) :
                                    i \in 1..NumDebates, c \in {49, 50} }] :
      \A i \in 1..NumDebates : input[i].id = i }

MaxConcurrents == {0, 1, DEFAULT_MAX_CONCURRENT}

AdversarialNext ==
  \/ \E input \in DebateInputs, m \in MaxConcurrents : CallPipeline(input, m)
  \/ PipelineSpins
  \/ \E i \in 1..NumDebates : SourceRead(i)
  \/ \E i \in 1..NumDebates, reply \in RedReplies : RedReturns(i, reply)
  \/ \E i \in 1..NumDebates, reply \in BlueReplies : BlueReturns(i, reply)
  \/ \E i \in 1..NumDebates, reply \in JudgeReplies : JudgeReturns(i, reply)
  \/ \E i \in 1..NumDebates : RoleThrows(i)
  \/ FilterByVerdict

SpecAdversarial == DaemonInit /\ [][AdversarialNext]_vars

\* Every pending read or model call completes or fails.
FairSpecAdversarial ==
  /\ SpecAdversarial
  /\ WF_vars(\E i \in 1..NumDebates :
               \/ SourceRead(i)
               \/ RoleThrows(i)
               \/ \E reply \in RedReplies : RedReturns(i, reply)
               \/ \E reply \in BlueReplies : BlueReturns(i, reply)
               \/ \E reply \in JudgeReplies : JudgeReturns(i, reply))

\* Patch review: one processOne call on every bounded case, patch agent,
\* reviewer and sandbox answering in every way.
HunkBodies ==
  { <<PatchLine("-", "a"), PatchLine("+", "y")>>,
    <<PatchLine("-", "x"), PatchLine("+", "y")>>,
    <<PatchLine(" ", "x"), PatchLine("-", "a"), PatchLine("+", "y")>>,
    <<PatchLine(" ", "a"), PatchLine("-", "b"), PatchLine("+", "y")>> }

HunkPool == { Hunk(start, body) : start \in 1..2, body \in HunkBodies }

PatchDiffs ==
  {Diff(TRUE, FALSE, << >>)}
    \cup { Diff(FALSE, headers, hunks) :
             headers \in BOOLEAN,
             hunks \in UNION { [1..n -> HunkPool] : n \in 1..MaxHunks } }

PatchCases ==
  { PatchCase(verdict, hasExploit, <<"a", "b", "c">>, skipReview) :
      verdict \in {"confirmed", "likely", "disputed"},
      hasExploit \in BOOLEAN, skipReview \in BOOLEAN }

Proposals == {NoProposal} \cup { Proposal(TRUE, d) : d \in PatchDiffs }

RetestOutcomes == {RetestPassed(0), RetestPassed(1), "undefined"}

PatchNext ==
  \/ \E case \in PatchCases : ProcessOne(case)
  \/ \E patch \in Proposals : PatchAgentReturns(patch)
  \/ AgentThrows
  \/ \E approved \in BOOLEAN : ReviewerReplies(approved)
  \/ \E retest \in RetestOutcomes : RetestReturns(retest)

SpecPatch == DaemonInit /\ [][PatchNext]_vars

\* Sandbox: one exploit run or retest, docker ending in every way at every
\* step, and destroy called again afterwards.
ChildEnds == {Exited(0), Exited(1), Exited(124), KilledAtTimeout, NoExitCode}

SandboxNext ==
  \/ \E caller \in {"red", "review"} : CallSandbox(caller)
  \/ \E end \in ChildEnds : DockerProbed(end)
  \/ \E end \in ChildEnds : SandboxCreated(end)
  \/ \E ok \in BOOLEAN : FileWritten(ok)
  \/ ExecTick
  \/ \E end \in ChildEnds : ExecEnded(end)
  \/ ExecRejected
  \/ \E end \in ChildEnds : Destroyed(end)
  \/ \E end \in ChildEnds : DestroyedAgain(end)

SpecSandbox == DaemonInit /\ [][SandboxNext]_vars

\* Diff scan: one runDiffScan call with every bounded option, stat and git
\* answer, and the clock moving at any time.
ScanPaths == {"a.rs", "b.rs"}

PathLists == UNION { [1..n -> ScanPaths] : n \in 0..MaxGiven }

ThreatModels ==
  { ThreatModelInfo(ThreatModelVersion(1, NoId, h), fromCache) :
      h \in Fingerprints, fromCache \in BOOLEAN }

ScanNext ==
  \/ \E given \in BOOLEAN, changedFiles \in PathLists :
       RunDiffScan(DiffScanOptions(given, IF given THEN changedFiles ELSE << >>))
  \/ \E stat \in {"file", "directory", "missing"} : StatReturns(stat)
  \/ \E lines \in PathLists : GitReturns(lines)
  \/ GitFails
  \/ DiffScanThrows
  \/ ScanTick
  \/ \E threatModel \in ThreatModels, passed \in 0..1 :
       ThreatModelLoaded(threatModel, passed)
  \/ \E files \in SUBSET (ScanPaths \cup {"c.rs"}) : ScannersReturn(files)

SpecScan == DaemonInit /\ [][ScanNext]_vars

\* Finding identity: pattern and LLM scanners producing findings for the
\* files of one tree.
ScannerIds == {"scanner.a", "scanner.b"}

TreeFiles == {"/repo/a.rs", "/repo/b.rs"}

RawFindings ==
  { RawFinding(vulnClass, severity, file, line) :
      vulnClass \in VALID_VULN_CLASSES \cup {"other"},
      severity \in {"HIGH", "LOW"},
      file \in TreeFiles \cup {"a.rs", ""},
      line \in 0..2 }

FindingsNext ==
  \/ \E scannerId \in ScannerIds, vulnClass \in VALID_VULN_CLASSES,
        severity \in {"HIGH", "LOW"}, file \in TreeFiles, line \in 1..2 :
       PatternScannerFinds(scannerId, vulnClass, severity, file, line)
  \/ \E scannerId \in ScannerIds, filePath \in TreeFiles, raw \in RawFindings :
       LlmScannerFinds(scannerId, filePath, raw)

SpecFindings == DaemonInit /\ [][FindingsNext]_vars

\* Patch pipeline: one call on every bounded list of adversarial results,
\* the agents answering or throwing in any order.
PatchInputs ==
  { input \in [1..NumPatches -> { Judged(i, v) :
                                    i \in 1..NumPatches,
                                    v \in {"confirmed", "likely", "disputed", "none"} }] :
      \A i \in 1..NumPatches : input[i].id = i }

PatchAnswers ==
  { NoProposal, Proposal(TRUE, Diff(TRUE, FALSE, << >>)),
    Proposal(TRUE, Diff(FALSE, TRUE, << >>)) }

PatchPipelineNext ==
  \/ \E input \in PatchInputs, m \in MaxConcurrents, skipReview \in BOOLEAN :
       CallPatchPipeline(input, m, skipReview)
  \/ PatchPipelineSpins
  \/ \E i \in 1..NumPatches, patch \in PatchAnswers : PatchProposed(i, patch)
  \/ \E i \in 1..NumPatches, approved \in BOOLEAN : PatchReviewed(i, approved)
  \/ \E i \in 1..NumPatches : PatchTaskThrows(i)

SpecPatchPipeline == DaemonInit /\ [][PatchPipelineNext]_vars

\* Every pending agent call returns or throws.
FairSpecPatchPipeline ==
  /\ SpecPatchPipeline
  /\ WF_vars(\E i \in 1..NumPatches :
               \/ PatchTaskThrows(i)
               \/ \E patch \in PatchAnswers : PatchProposed(i, patch)
               \/ \E approved \in BOOLEAN : PatchReviewed(i, approved))

\* The judge on its own: every red-team and blue-team assessment of a small
\* range, and every kind of answer of the judge's model.
JudgedFinding == DebatedFinding(1, "HIGH", 60)

JudgeReds ==
  { RedTeamAssessment(1, exploitable, conf, executed, exitCode, "none") :
      exploitable \in BOOLEAN, conf \in {MinLikely - 1, MinLikely},
      executed \in BOOLEAN, exitCode \in {NoCount, 0, 1} }

JudgeBlues ==
  { BlueTeamAssessment(NoRed, r) : r \in {"confirmed", "mitigated", "infeasible"} }

VerdictReplies ==
  JudgeReplies \cup { JudgeReply("json", "maybe", "LOW", TRUE, 40),
                      JudgeReply("json", "none", "LOW", FALSE, 0) }

JudgeNext ==
  \/ \E red \in JudgeReds, blue \in JudgeBlues : CallJudge(red, blue)
  \/ \E reply \in VerdictReplies : JudgeAnswers(JudgedFinding, reply)

SpecJudge == DaemonInit /\ [][JudgeNext]_vars

\* LLM client: one createMessage on every primary model, every list of
\* fallbacks without repeats (the primary may be among them), every retry
\* limit up to MaxRetries, the API answering in every way.
ModelNames == {"opus", "sonnet", "haiku"}

FallbackLists ==
  { f \in UNION { [1..n -> ModelNames] : n \in 0..MaxFallbacks } :
      \A i, j \in DOMAIN f : i # j => f[i] # f[j] }

Statuses == {200, 400, 401, 429, 503}

LlmNext ==
  \/ \E model \in ModelNames, f \in FallbackLists, r \in 0..MaxRetries,
        hasKey \in BOOLEAN : CreateMessage(model, f, r, hasKey)
  \/ FetchFails
  \/ \E status \in Statuses, parsable \in BOOLEAN : FetchAnswers(status, parsable)
  \/ SleepEnds

SpecLlm == DaemonInit /\ [][LlmNext]_vars

\* Every fetch settles and every sleep ends.
FairSpecLlm ==
  /\ SpecLlm
  /\ WF_vars(FetchFails
             \/ \E status \in Statuses, parsable \in BOOLEAN :
                  FetchAnswers(status, parsable))
  /\ WF_vars(SleepEnds)

\* ------------------------------------------------------ dispatcher claims
StatusOf(i) == IF i \in DOMAIN records THEN records[i].status ELSE "none"

RunningCount == Cardinality({i \in Tasks : StatusOf(i) = "running"})

AllTerminal == \A i \in Tasks : StatusOf(i) \in TerminalStatus

FindingsOf(i) == {k \in 1..Len(findings) : findings[k].task = i}

\* C1: at any time the number of AgentRuns with status running is at most
\* the concurrency limit dispatchScanners derived from the environment.
C1_RunningBounded == RunningCount <= maxConcurrentAgents

C1_Witness ==
  /\ maxConcurrentAgents = 2
  /\ RunningCount = 2
  /\ Len(queue) > 0
  /\ pcMain = "awaiting"

\* C2: dispatchScanners eventually returns, and when it has returned every
\* AgentRun is completed, failed or timed_out.
C2_DispatcherTerminates ==
  /\ <>(pcMain = "returned")
  /\ [](pcMain = "returned" => AllTerminal)

\* C3: a task whose timer fired before execute() settled is timed_out, has no
\* finding_count and has no finding in the dispatch result, also after its
\* execute() settled late.
C3_TimeoutDiscardsFindings ==
  \A i \in Tasks :
    timer[i] = "fired" =>
      /\ StatusOf(i) = "timed_out"
      /\ records[i].finding_count = NoCount
      /\ FindingsOf(i) = {}

C3_Witness ==
  \E i \in Tasks :
    /\ timer[i] = "fired"
    /\ exec[i].kind = "value"
    /\ exec[i].n > 0
    /\ pcMain = "returned"

\* C4: records are created queued; status moves only queued -> running ->
\* completed | failed | timed_out; a terminal record never changes again.
C4_Transition(i) ==
  \/ records'[i] = records[i]
  \/ /\ records[i].status = "queued"
     /\ records'[i].status = "running"
  \/ /\ records[i].status = "running"
     /\ records'[i].status \in TerminalStatus

C4_MonotonicStatus ==
  [][ /\ (records = << >> /\ records' # << >>) =>
           \A i \in Tasks : records'[i].status = "queued"
      /\ records # << >> =>
           \A i \in Tasks : C4_Transition(i) ]_vars

C4_Witness ==
  \E i, j \in Tasks :
    /\ StatusOf(i) = "timed_out"
    /\ exec[i].kind = "error"
    /\ StatusOf(j) = "completed"

\* C5: a task that threw an Error is failed with that Error's message;
\* dispatchScanners never rejects; once a task has failed or timed out every
\* task still reaches a terminal status and the dispatcher returns.
C5_FailureIsolated ==
  /\ [](\A i \in Tasks :
          (StatusOf(i) = "failed" /\ exec[i].thrown.isError) =>
            records[i].error = exec[i].thrown.message)
  /\ [](pcMain # "rejected")
  /\ ((\E i \in Tasks : StatusOf(i) \in {"failed", "timed_out"})
        ~> (pcMain = "returned" /\ AllTerminal))

C5_Witness ==
  /\ pcMain = "returned"
  /\ maxConcurrentAgents = 1
  /\ StatusOf(1) = "failed"
  /\ records[1].error = "boom"
  /\ StatusOf(2) = "timed_out"
  /\ StatusOf(NumTasks) = "completed"

\* ---------------------------------------------------------- daemon claims
Parts(pathStr) == NormalizeParts(Split(pathStr), << >>)

IsPrefixOf(a, t) == Len(a) <= Len(t) /\ SubSeq(t, 1, Len(a)) = a

\* The path is an allow-list entry or lies under one, component by component.
WithinAllowList(pathStr) ==
  \E k \in 1..Len(allowedPaths) :
    IsPrefixOf(Parts(allowedPaths[k]), Parts(pathStr))

AllowListConfigured == pcDaemon = "listening" /\ allowedPaths # NoPaths

IsTrigger(req) == req.method = "POST" /\ req.route = "trigger"

OnlyTargetGiven(req) ==
  /\ req.body.kind = "json"
  /\ req.body.payload.target_path.type = "string"
  /\ req.body.payload.target_path.str # << >>
  /\ req.body.payload =
       Payload(req.body.payload.target_path, "undefined", "undefined",
               "undefined", "undefined")

\* C6: with an allow-list, every run record's target is an entry or under
\* one; a trigger is accepted only for such a canonical target, and a trigger
\* whose canonical target is an existing directory outside the list is
\* answered 403 path_not_allowed.
C6_AllowListEnforced ==
  AllowListConfigured =>
    /\ \A id \in RunIds : WithinAllowList(runRecords[id].target_path)
    /\ IsTrigger(lastReq) =>
         LET canonical == resolveDirectoryPath(lastReq.body.payload.target_path)
         IN /\ lastResp.status = 202 =>
                 /\ canonical.ok
                 /\ WithinAllowList(canonical.path)
                 /\ runRecords[lastResp.run_id].target_path = canonical.path
            /\ ( /\ lastResp.status # 401
                 /\ OnlyTargetGiven(lastReq)
                 /\ canonical.ok
                 /\ ~WithinAllowList(canonical.path) ) =>
                 lastResp = Response(403, "path_not_allowed", 0, << >>)

C6_Witness ==
  /\ allowedPaths = << <<"/", "a">> >>
  /\ IsTrigger(lastReq)
  /\ lastReq.body.payload.target_path = P(<<"/", "a", "b">>)
  /\ lastResp.status = 403
  /\ Len(runs) > 0

TokenConfigured ==
  pcDaemon = "listening" /\ authToken # Undef /\ authToken # << >>

\* C7: with a token, GET /healthz is answered 200, any other request without
\* the exact "Bearer <token>" header is answered 401, a request with it is
\* not; and only a request with the exact header changes the run map or
\* creates a record.
C7_Responses ==
  (TokenConfigured /\ lastReq # NoRequest) =>
    IF lastReq.method = "GET" /\ lastReq.route = "healthz"
      THEN lastResp.status = 200
    ELSE IF lastReq.authorization # Bearer \o authToken
      THEN lastResp = Response(401, "unauthorized", 0, << >>)
    ELSE lastResp.status # 401

C7_NoEffect ==
  ( /\ TokenConfigured
    /\ \/ runs' # runs
       \/ DOMAIN runRecords' # DOMAIN runRecords
       \/ Len(microtasks') > Len(microtasks) ) =>
    lastReq'.authorization = Bearer \o authToken

C8_OldestFirst ==
  \A id \in SeqRange(runs) \ SeqRange(runs') :
    \A kept \in SeqRange(runs') :
      runRecords[id].created_at <= runRecords'[kept].created_at

C8_RunsBounded ==
  [](Len(runs) <= MAX_STORED_RUNS) /\ [][C8_OldestFirst]_vars

C8_Witness ==
  /\ Len(runs) = MAX_STORED_RUNS
  /\ Cardinality(RunIds) > MAX_STORED_RUNS
  /\ runRecords[runs[1]].created_at < now

Finished(id) ==
  id \in RunIds /\ runRecords[id].status \in {"completed", "failed"}

\* C9: every accepted run is eventually completed (with a result) or failed
\* (with an error).
C9_AcceptedRunsFinish ==
  /\ \A id \in 1..MaxRuns : (id \in RunIds) ~> Finished(id)
  /\ [](\A id \in RunIds :
          /\ runRecords[id].status = "completed" => runRecords[id].result
          /\ runRecords[id].status = "failed" =>
               runRecords[id].error # "undefined")

RejectCodes ==
  { "invalid_json", "request_too_large", "missing_target_path", "invalid_mode",
    "head_ref_requires_base_ref", "changed_files_must_be_array",
    "invalid_target_path", "path_not_allowed", "unauthorized" }

\* C10: a POST /trigger answered with a rejection leaves the run map, the
\* run records, the scheduled executions and the GET /runs list unchanged.
C10_Step ==
  ( /\ IsTrigger(lastReq')
    /\ lastResp'.error \in RejectCodes
    /\ <<lastReq', lastResp'>> # <<lastReq, lastResp>> ) =>
    /\ runs' = runs
    /\ runRecords' = runRecords
    /\ microtasks' = microtasks
    /\ handleListRuns(runs', runRecords') = handleListRuns(runs, runRecords)

C10_RejectedTriggerNoEffect == [][C10_Step]_vars

C10_Witness ==
  /\ IsTrigger(lastReq)
  /\ lastResp.error = "path_not_allowed"
  /\ Len(runs) > 0
  /\ \E id \in RunIds : runRecords[id].status = "completed"

\* ------------------------------------------------------ aggregator claims
Coordinate(finding) == <<finding.vuln_class, finding.file, finding.line>>

PositionsAt(findingList, coord) ==
  { k \in 1..Len(findingList) : Coordinate(findingList[k]) = coord }

ScannersAt(findingList, coord) ==
  { findingList[k].scanner_id : k \in PositionsAt(findingList, coord) }

Corroborated(findingList, coord) == Cardinality(ScannersAt(findingList, coord)) >= 2

SeverityRank(sev) == CHOOSE r \in 1..Len(Severities) : Severities[r] = sev

Called == pcAgg \notin {"idle", "input"}

Smaller(a, b) == IF a < b THEN a ELSE b
Larger(a, b) == IF a > b THEN a ELSE b

\* C11: every finding returned by aggregateFindings is corroborated (two
\* distinct scanners reported its coordinate) or has confidence >= 80.
C11_EmissionGate ==
  Called =>
    \A k \in 1..Len(aggOut) :
      \/ Corroborated(aggIn, Coordinate(aggOut[k]))
      \/ aggOut[k].confidence >= 80

\* C12: when two distinct scanners report the same coordinate, exactly one
\* finding is returned for it, with confidence min(99, max + 5), scanner_id
\* "A + B" and a title ending in (corroborated).
C12_CorroboratedMerge ==
  Called =>
    \A i, j \in 1..Len(aggIn) :
      ( /\ i < j
        /\ Coordinate(aggIn[i]) = Coordinate(aggIn[j])
        /\ aggIn[i].scanner_id # aggIn[j].scanner_id
        /\ PositionsAt(aggIn, Coordinate(aggIn[i])) = {i, j} ) =>
        LET at == PositionsAt(aggOut, Coordinate(aggIn[i]))
        IN /\ Cardinality(at) = 1
           /\ \A k \in at :
                /\ aggOut[k].confidence =
                     Smaller(99, Larger(aggIn[i].confidence, aggIn[j].confidence) + 5)
                /\ aggOut[k].scanner_id =
                     aggIn[i].scanner_id \o " + " \o aggIn[j].scanner_id
                /\ aggOut[k].title[Len(aggOut[k].title)] = "(corroborated)"

\* C13: after the findings of one more scanner are added, every coordinate
\* of the earlier result is still returned, with confidence and severity
\* not lower.
C13_Monotone ==
  pcAgg = "extended" =>
    \A k \in 1..Len(aggPrev) :
      \E j \in PositionsAt(aggOut, Coordinate(aggPrev[k])) :
        /\ aggOut[j].confidence >= aggPrev[k].confidence
        /\ SeverityRank(aggOut[j].severity) >= SeverityRank(aggPrev[k].severity)

\* C14: aggregateFindings applied to its own result returns that result:
\* same findings, same fields, same order.
C14_Idempotent == pcAgg = "reaggregated" => aggOut = aggPrev

C14_Witness ==
  /\ pcAgg = "reaggregated"
  /\ Len(aggOut) = 2
  /\ aggOut[1].confidence = aggOut[2].confidence
  /\ aggOut[1].severity # aggOut[2].severity

\* C15: the returned list is ordered by severity descending and, within a
\* severity, by confidence descending.
C15_Ordered ==
  Called =>
    \A i, j \in 1..Len(aggOut) :
      i < j =>
        \/ SeverityRank(aggOut[i].severity) > SeverityRank(aggOut[j].severity)
        \/ /\ aggOut[i].severity = aggOut[j].severity
           /\ aggOut[i].confidence >= aggOut[j].confidence

\* C16: the same findings pushed in another order give the same result:
\* same winner per coordinate, same order.
C16_OrderIndependent == pcAgg = "permuted" => aggOut = aggPrev

\* -------------------------------------------------- threat-model claims
IsPrefix(a, b) == Len(a) <= Len(b) /\ SubSeq(b, 1, Len(a)) = a

Indexed(store, fingerprintHash) == store.by_fingerprint[fingerprintHash] # NoId

LastVersion(store) == store.versions[Len(store.versions)]

\* C17: a call whose fingerprint hash is indexed in the store it loaded
\* returns the stored version with loaded_from_cache = true and writes
\* nothing; otherwise it appends one version whose revision is its parent's
\* plus one (1 without a parent) and returns it with loaded_from_cache =
\* false.
C17_LoadOrCreate ==
  \A c \in Calls :
    calls[c].pc = "returned" =>
      LET loaded == calls[c].loaded
          info == calls[c].info
          hash == calls[c].fingerprint_hash
      IN IF Indexed(loaded, hash)
           THEN /\ info.loaded_from_cache
                /\ info.version.id = loaded.by_fingerprint[hash]
                /\ \E k \in 1..Len(loaded.versions) : loaded.versions[k] = info.version
                /\ info.version.fingerprint_hash = hash
                /\ calls[c].written = NoFile
           ELSE /\ ~info.loaded_from_cache
                /\ calls[c].written.exists
                /\ calls[c].written.store.versions =
                     Append(loaded.versions, info.version)
                /\ info.version.revision =
                     IF loaded.versions = << >> THEN 1
                     ELSE LastVersion(loaded).revision + 1
                /\ info.version.parent_version_id =
                     IF loaded.versions = << >> THEN NoId
                     ELSE LastVersion(loaded).id
                /\ \A k \in 1..Len(loaded.versions) :
                     info.version.revision > loaded.versions[k].revision

C17_Witness ==
  \E c, d \in Calls :
    /\ calls[c].pc = "returned" /\ calls[d].pc = "returned"
    /\ calls[c].info.loaded_from_cache
    /\ ~calls[d].info.loaded_from_cache
    /\ calls[d].info.version.revision = 2

\* C18: whatever the interleaving of calls on one repo, the persisted list
\* only grows at its end, and no two versions ever written share a
\* revision or a version id.
C18_Unique ==
  \A v, w \in everWritten : v # w => (v.revision # w.revision /\ v.id # w.id)

C18_Grows ==
  IsPrefix(loadStore(storeFile).versions, loadStore(storeFile').versions)

C18_AppendOnly == [](C18_Unique) /\ [][C18_Grows]_vars

\* ---------------------------------------------------------- cache claims
IsLookupStep == lastLookup' # NoLookup

WasPut(t) == lastPut[t].seq > 0

\* No later put was made for the key of t.
LatestAtKey(t) ==
  \A u \in Triples : KeyOf(u) = KeyOf(t) => lastPut[u].seq <= lastPut[t].seq

Age(t) == cacheNow - lastPut[t].cached_at

\* C19: a lookup after a put that was neither invalidated nor evicted, and
\* with no newer put for its key, returns the findings put while the age is
\* at most ttl_ms and is a miss once the age exceeds it; a lookup of a key
\* with no standing put is a miss; and only a put makes a key present again.
C19_Lookup ==
  IsLookupStep =>
    LET t == lastLookup'.triple
    IN /\ (WasPut(t) /\ LatestAtKey(t) /\ Age(t) <= lastPut[t].ttl_ms) =>
            lastLookup'.result = lastPut[t].findings
       /\ (WasPut(t) /\ LatestAtKey(t) /\ Age(t) > lastPut[t].ttl_ms) =>
            /\ lastLookup'.result = Miss
            /\ KeyOf(t) \notin KeysOf(cacheEntries')
       /\ (\A u \in Triples : KeyOf(u) = KeyOf(t) => ~WasPut(u)) =>
            lastLookup'.result = Miss

C19_StaysMiss ==
  \A t \in Triples :
    (KeyOf(t) \notin KeysOf(cacheEntries) /\ KeyOf(t) \in KeysOf(cacheEntries')) =>
      \E u \in Triples :
        KeyOf(u) = KeyOf(t) /\ putCount' = putCount + 1 /\ lastPut'[u].seq = putCount'

C19_RoundTrip == [][C19_Lookup /\ C19_StaysMiss]_vars

C19_Witness ==
  \E t \in Triples :
    /\ lastLookup = LookupRecord(t, Miss)
    /\ WasPut(t)
    /\ Age(t) > lastPut[t].ttl_ms
    /\ cacheEntries # << >>

\* C20: for one scanner and one content, a lookup of a path returns the
\* findings last put for that path, whatever was put for other paths.
C20_Lookup ==
  IsLookupStep =>
    LET t == lastLookup'.triple
    IN ( /\ WasPut(t)
         /\ Age(t) <= lastPut[t].ttl_ms
         /\ \E u \in Triples :
              /\ u.scanner_id = t.scanner_id
              /\ u.content = t.content
              /\ u.file_path # t.file_path
              /\ WasPut(u) ) =>
         lastLookup'.result = lastPut[t].findings

C20_KeyIsolation == [][C20_Lookup]_vars

\* ----------------------------------------------- adversarial pipeline claims
\* The roles already called for a debate at this stage, and those returned.
RolesCalled(stage) ==
  CASE stage \in {"none", "read"} -> {}
    [] stage \in {"red", "thrown_red"} -> {"red"}
    [] stage \in {"blue", "thrown_blue"} -> {"red", "blue"}
    [] OTHER -> {"red", "blue", "judge"}

RolesReturned(stage) ==
  CASE stage \in {"none", "read", "red", "thrown_red"} -> {}
    [] stage \in {"blue", "thrown_blue"} -> {"red"}
    [] stage \in {"judge", "thrown_judge"} -> {"red", "blue"}
    [] OTHER -> {"red", "blue", "judge"}

\* C21: in every debate the defender is called only once the attacker has
\* returned and the judge only once the defender has returned; the
\* defender is given the attacker's assessment of that same finding and the
\* judge is given both; a debate never goes back to an earlier role,
\* however the debates of different findings interleave.
C21_Given ==
  \A i \in DOMAIN debates :
    LET d == debates[i]
    IN /\ (d.red # NoRed) = ("red" \in RolesReturned(d.stage))
       /\ (d.blue # NoBlue) = ("blue" \in RolesReturned(d.stage))
       /\ "red" \in RolesReturned(d.stage) => d.red.about = i
       /\ IF "blue" \in RolesCalled(d.stage)
            THEN d.blue_given = d.red
            ELSE d.blue_given = NoRed
       /\ "blue" \in RolesReturned(d.stage) => d.blue.about = d.red
       /\ IF "judge" \in RolesCalled(d.stage)
            THEN d.judge_given_red = d.red /\ d.judge_given_blue = d.blue
            ELSE d.judge_given_red = NoRed /\ d.judge_given_blue = NoBlue

C21_Forward ==
  \A i \in DOMAIN debates :
    i \in DOMAIN debates' =>
      /\ RolesCalled(debates[i].stage) \subseteq RolesCalled(debates'[i].stage)
      /\ RolesReturned(debates[i].stage) \subseteq RolesReturned(debates'[i].stage)
      /\ RolesReturned(debates'[i].stage) \subseteq RolesCalled(debates'[i].stage)
      /\ Cardinality(RolesCalled(debates'[i].stage) \ RolesReturned(debates'[i].stage)) <= 1

C21_RedBlueJudge == [](C21_Given) /\ [][C21_Forward]_vars

C21_Witness ==
  \E i, j \in DOMAIN debates :
    /\ i < j
    /\ debates[i].stage = "blue"
    /\ debates[j].stage = "judge"
    /\ debates[i].blue_given.about = i
    /\ debates[j].judge_given_blue.about.about = j

ResultsFor(i) == { k \in 1..Len(advResults) : advResults[k].finding = advIn[i] }

DebateThrew(i) == debates[i].stage \in {"thrown_red", "thrown_blue", "thrown_judge"}

Returned == advPc \in {"returned", "filtered"}

\* C22: the pipeline has no rejected outcome; what it returns holds exactly
\* one result for each finding with confidence >= 50 and none for the
\* others; a finding whose role threw has the partial result, every other
\* debated finding has its own complete result; and once a debate is in
\* flight the pipeline does return.
C22_Results ==
  /\ advPc \in {"idle", "awaiting", "spinning", "returned", "filtered"}
  /\ Returned =>
       \A i \in 1..Len(advIn) :
         /\ Cardinality(ResultsFor(i)) =
              (IF advIn[i].confidence >= DEFAULT_MIN_CONFIDENCE THEN 1 ELSE 0)
         /\ \A k \in ResultsFor(i) :
              IF DebateThrew(i)
                THEN advResults[k] =
                       AdversarialResult(advIn[i], PipelineError, NoBlue, NoJudge)
                ELSE /\ advResults[k].red_team = debates[i].red
                     /\ advResults[k].blue_team = debates[i].blue
                     /\ advResults[k].red_team.about = i
                     /\ advResults[k].judge # NoJudge

C22_OneResultEach ==
  [](C22_Results) /\ ((advPc = "awaiting") ~> Returned)

C22_Witness ==
  /\ advPc = "returned"
  /\ Len(advResults) = 2
  /\ \E i, j \in 1..Len(advIn) :
       /\ debates[i].stage = "thrown_blue"
       /\ debates[j].stage = "done"
       /\ advResults[1].finding = advIn[j]
       /\ advResults[2].finding = advIn[i]
       /\ i < j

\* C23: when the attacker and the defender have answered and the judge's
\* model call fails, the result of that finding holds both assessments and
\* a verdict given by the inference rule; for an exploit at confidence 85
\* without sandbox run and a defender recommending confirmed the verdict is
\* likely, which the patch pipeline accepts.
C23_JudgeFallback ==
  \A i \in DOMAIN debates :
    debates[i].stage = "thrown_judge" =>
      \E k \in ResultsFor(i) :
        /\ advResults[k].red_team = debates[i].red
        /\ advResults[k].blue_team = debates[i].blue
        /\ advResults[k].judge.verdict =
             inferVerdict(debates[i].red, debates[i].blue)
        /\ ( /\ debates[i].red.exploitable
             /\ debates[i].red.confidence = 85
             /\ ~debates[i].red.sandbox_executed
             /\ debates[i].blue.recommendation = "confirmed" ) =>
             advResults[k].judge.verdict = "likely"

\* C24: filterByVerdict returns exactly the findings of the results whose
\* judge verdict is confirmed or likely, each with the judge's final
\* severity and confidence; a result without judge verdict is not returned.
C24_VerdictFilter ==
  advPc = "filtered" =>
    LET kept == SelectSeq(advResults,
                          LAMBDA r : r.judge.verdict \in {"confirmed", "likely"})
    IN advFiltered =
         [k \in 1..Len(kept) |->
            [kept[k].finding EXCEPT !.severity = kept[k].judge.final_severity,
                                    !.confidence = kept[k].judge.final_confidence]]

\* ------------------------------------------------------ patch review claims
Reviewed == patchPc = "done" /\ patchStatus \in {"patched_and_verified", "patch_rejected"}

\* The removed lines of a hunk are the lines of the source at its position.
HunkFits(source, hunk) ==
  ContextMatches(source, hunk.start - 1, TextsOf(hunk.lines, "-"))

Unmatched(source, patchDiff) ==
  \E i \in 1..Len(patchDiff.hunks) : ~HunkFits(source, patchDiff.hunks[i])

\* C25: a reviewed patch with a hunk whose lines do not match the source at
\* the hunk's position is patch_rejected with the error issue about unmatched
\* context, and no hunk of it was applied, with or without exploit code and
\* whatever the reviewer's model answered.
C25_UnmatchedContext ==
  (Reviewed /\ Unmatched(patchCase.source, proposal.patch_diff))
    => /\ patchStatus = "patch_rejected"
       /\ UnmatchedContext \in review.issues
       /\ ~applied.applied

\* C26: when the retest ran and the exploit still succeeded, the review is not
\* approved, carries the error issue, and the status is patch_rejected.
C26_RetestOverride ==
  (patchPc = "done" /\ review.exploit_retest_passed = "false")
    => /\ ~review.approved
       /\ ExploitStillSucceeds \in review.issues
       /\ ExploitStillSucceeds.severity = "error"
       /\ patchStatus = "patch_rejected"

C26_Witness ==
  /\ patchPc = "done"
  /\ review.exploit_retest_passed = "false"
  /\ applied.applied
  /\ patchStatus = "patch_rejected"

\* C27: the status of an eligible result: no_patch without a proposal or with
\* an empty one, patched_needs_review under skipReview, else
\* patched_and_verified only when the review approved, the diff applies to
\* the source and the retest passed or could not run, and patch_rejected
\* in every other case.
C27_StatusRule ==
  (patchPc = "done" /\ patchCase.verdict \in {"confirmed", "likely"})
    => IF ~proposal.given \/ proposal.patch_diff.empty
         THEN patchStatus = "no_patch"
         ELSE IF patchCase.skip_review
           THEN patchStatus = "patched_needs_review"
           ELSE patchStatus =
                  IF /\ review.approved
                     /\ applyPatchToSource(patchCase.source,
                                           proposal.patch_diff).applied
                     /\ review.exploit_retest_passed \in {"true", "undefined"}
                    THEN "patched_and_verified"
                    ELSE "patch_rejected"

\* ------------------------------------------------------------ sandbox claims
\* C28: an exec whose wall-time cap elapsed resolves with exit_code 124 and
\* timed_out true; no ExecResult has timed_out true with exit_code 0, and none
\* of an exec that hit its cap has exit_code 0.
C28_TimeoutIs124 ==
  sbExec # NoExec
    => /\ sbHitCap => (sbExec.exit_code = 124 /\ sbExec.timed_out)
       /\ ~(sbExec.timed_out /\ sbExec.exit_code = 0)
       /\ ~(sbHitCap /\ sbExec.exit_code = 0)

C28_Witness == sbHitCap /\ sbExec = ExecResult(124, TRUE) /\ sbPc = "returned"

C30_EmptyDiffScan ==
  (scanPc = "returned" /\ scanChanged = << >>)
    => /\ scanTasks = 0
       /\ scanResult.agent_runs = 0
       /\ scanResult.findings = {}
       /\ scanResult.threat_model = scanThreat
       /\ scanResult.threat_model # NoInfo
       /\ scanResult.started_at <= scanResult.completed_at

C30_Witness ==
  /\ scanPc = "returned"
  /\ scanChanged = << >>
  /\ scanResult.started_at < scanResult.completed_at

\* C31: when git diff or git ls-files fails during a diff scan, the scan does
\* not throw: it goes on with an empty set of changed files.
C31_GitFailureDegrades ==
  scanGit = "failed" => (scanPc # "threw" /\ scanChanged = << >>)

\* ---------------------------------------------------- finding identity claims
\* C32: two findings produced by scanner tasks that agree on scanner_id,
\* vuln_class, file and line have the same id.
C32_IdIsFunctionOfKey ==
  \A f, g \in produced :
    (/\ f.scanner_id = g.scanner_id
     /\ f.vuln_class = g.vuln_class
     /\ f.file = g.file
     /\ f.line = g.line) => f.id = g.id

\* ---------------------------------------------------------- cancellation claims
\* C33: once the cancel is signalled the dispatcher dequeues nothing more:
\* the queue stays as it was at the signal.
C33_NoDequeueAfterCancel == cancelSignalled => queue = queueAtCancel

\* ------------------------------------------------------- daemon startup claims
TokenMissing(options) == options.authToken \in {Undef, << >>}

AllowListMissing(options) ==
  \/ options.allowedPaths = NoPaths
  \/ \A k \in 1..Len(options.allowedPaths) : Trim(options.allowedPaths[k]) = << >>

IsPutStep == putCount' = putCount + 1

\* The key written by the put of this step.
PutKeys == { KeyOf(t) : t \in { u \in Triples : lastPut'[u].seq = putCount' } }

EvictedKeys == KeysOf(cacheEntries) \ KeysOf(cacheEntries')

\* C35: after a put the cache holds at most MAX_CACHE_ENTRIES entries and the
\* entry just written; the put removes exactly the excess over the limit, and
\* no removed entry is newer than an entry that stays.
C35_Put ==
  IsPutStep =>
    LET before == KeysOf(cacheEntries) \cup PutKeys
        excess == IF Cardinality(before) > MAX_CACHE_ENTRIES
                    THEN Cardinality(before) - MAX_CACHE_ENTRIES ELSE 0
    IN /\ Len(cacheEntries') <= MAX_CACHE_ENTRIES
       /\ PutKeys # {}
       /\ PutKeys \subseteq KeysOf(cacheEntries')
       /\ Cardinality(before \ KeysOf(cacheEntries')) = excess
       /\ \A r \in 1..Len(cacheEntries), k \in 1..Len(cacheEntries') :
            cacheEntries[r].key \in EvictedKeys
              => cacheEntries[r].cached_at <= cacheEntries'[k].cached_at

C35_EvictsOldest == [][C35_Put]_vars

\* The last put filled the cache over its limit: its entry stands, and the
\* put before the two standing ones is gone though nothing was invalidated
\* or looked up since.
C35_Witness ==
  /\ putCount = MaxPuts
  /\ Len(cacheEntries) = MAX_CACHE_ENTRIES
  /\ lastLookup = NoLookup
  /\ \E t \in Triples :
       lastPut[t].seq = putCount /\ KeyOf(t) \in KeysOf(cacheEntries)
  /\ \A k \in 1..Len(cacheEntries) :
       \E t \in Triples : KeyOf(t) = cacheEntries[k].key /\ lastPut[t].seq > 1

\* ------------------------------------------------------ patch pipeline claims
PatchResultsFor(i) == { k \in 1..Len(ppResults) : ppResults[k].adversarial = ppIn[i] }

\* C36: the patch pipeline has no rejected outcome; what it returns holds
\* exactly one result for each adversarial result with verdict confirmed or
\* likely and none for the others; a result whose agent threw is no_patch;
\* and once a task is in flight the pipeline does return.
C36_Results ==
  /\ ppPc \in {"idle", "awaiting", "spinning", "returned"}
  /\ ppPc = "returned" =>
       \A i \in 1..Len(ppIn) :
         /\ Cardinality(PatchResultsFor(i)) =
              (IF ppIn[i].verdict \in {"confirmed", "likely"} THEN 1 ELSE 0)
         /\ ppStage[i] = "thrown" =>
              \A k \in PatchResultsFor(i) : ppResults[k].status = "no_patch"
         /\ ppStage[i] = "done" =>
              \A k \in PatchResultsFor(i) :
                ppResults[k].status \in {"no_patch", "patched_needs_review",
                                         "patched_and_verified", "patch_rejected"}

C36_OneResultEach ==
  [](C36_Results) /\ ((ppPc = "awaiting") ~> (ppPc = "returned"))

C36_Witness ==
  /\ ppPc = "returned"
  /\ Len(ppResults) = 2
  /\ \E i, j \in 1..Len(ppIn) :
       /\ ppStage[i] = "thrown"
       /\ ppStage[j] = "done"
       /\ ppResults[1] = PatchResult(ppIn[i], "no_patch")
       /\ ppResults[2] = PatchResult(ppIn[j], "patched_and_verified")

\* ---------------------------------------------------------- judge claims
NoValidVerdict ==
  \/ judgeReply.kind = "unparseable"
  \/ judgeReply.verdict \notin {"confirmed", "likely", "disputed", "false_positive"}

SandboxSucceeded == judgeRed.sandbox_executed /\ judgeRed.sandbox_exit_code = 0
RedConvinced == judgeRed.exploitable /\ judgeRed.confidence >= 70

\* C37: when the answer of the judge's model has no parseable or valid
\* verdict, the verdict is that of the first rule that matches, in this
\* order: sandbox executed with exit code 0 -> confirmed; red exploitable
\* with confidence >= 70 -> likely; blue mitigated -> disputed; blue
\* infeasible -> false_positive; otherwise likely.
C37_InferredVerdict ==
  (judgePc = "returned" /\ NoValidVerdict) =>
    /\ SandboxSucceeded => judgeVerdict.verdict = "confirmed"
    /\ (~SandboxSucceeded /\ RedConvinced) => judgeVerdict.verdict = "likely"
    /\ (~SandboxSucceeded /\ ~RedConvinced
        /\ judgeBlue.recommendation = "mitigated") =>
         judgeVerdict.verdict = "disputed"
    /\ (~SandboxSucceeded /\ ~RedConvinced
        /\ judgeBlue.recommendation = "infeasible") =>
         judgeVerdict.verdict = "false_positive"
    /\ (~SandboxSucceeded /\ ~RedConvinced
        /\ judgeBlue.recommendation \notin {"mitigated", "infeasible"}) =>
         judgeVerdict.verdict = "likely"

\* A JSON answer with an unknown verdict, red convinced and blue mitigated:
\* the second rule wins over the third.
C37_Witness ==
  /\ judgePc = "returned"
  /\ judgeReply.kind = "json"
  /\ judgeReply.verdict = "maybe"
  /\ ~SandboxSucceeded
  /\ RedConvinced
  /\ judgeBlue.recommendation = "mitigated"
  /\ judgeVerdict.verdict = "likely"

\* --------------------------------------------------- concurrency limit claims
\* C38: the limit dispatchScanners reads from HYDRA_MAX_CONCURRENT_AGENTS is
\* a positive integer: whatever the variable holds, the limit is at least 1.
C38_LimitPositive == pcMain # "init" => maxConcurrentAgents >= 1

\* ------------------------------------------------------ run retention claims
\* C39: a run accepted by POST /trigger that is still queued or running is
\* in the run map: GET /runs/:id for its run_id does not answer 404.
C39_LiveRunsRetrievable ==
  \A id \in RunIds :
    runRecords[id].status \in {"queued", "running"} =>
      handleGetRun(id).status # 404

\* ------------------------------------------------------- LLM client claims
RequestsTo(m) == Cardinality({ k \in 1..Len(llmSent) : llmSent[k] = m })

\* The distinct models of the requests sent, in the order of their first
\* request.
RECURSIVE FirstUses(_)
FirstUses(sent) ==
  IF sent = << >> THEN << >>
  ELSE LET before == FirstUses(SubSeq(sent, 1, Len(sent) - 1))
           m == sent[Len(sent)]
       IN IF \E k \in 1..Len(before) : before[k] = m THEN before
          ELSE Append(before, m)

\* The requests of one model are consecutive.
OneRunEach(sent) ==
  \A i, j, k \in 1..Len(sent) :
    (i < j /\ j < k /\ sent[i] = sent[k]) => sent[j] = sent[i]

RetryableEnd(end) ==
  \/ end.kind = "network"
  \/ end.kind = "response" /\ end.status \in {429, 500, 502, 503, 529}

Succeeded(end) == end.kind = "response" /\ end.status = 200 /\ end.parsable

\* The primary first, then the fallbacks other than the primary in the
\* order given.
ExpectedOrder ==
  <<llmModel>> \o SelectSeq(llmFallbacks, LAMBDA f : f # llmModel)

\* C40 (state part): no model is sent more than maxRetries + 1 requests;
\* the models are tried one after the other, the primary first and then the
\* fallbacks in their order; after a success no request follows and
\* createMessage returns.
C40_Bounded ==
  /\ \A m \in ModelNames : RequestsTo(m) <= llmMaxRetries + 1
  /\ OneRunEach(llmSent)
  /\ IsPrefix(FirstUses(llmSent), ExpectedOrder)
  /\ Succeeded(llmLast) <=> llmPc = "returned"

\* C40 (step part): a request that follows another request to the same
\* model follows a network error or a retryable status, and no request
\* follows a success.
C40_Step ==
  (Len(llmSent') = Len(llmSent) + 1 /\ Len(llmSent) > 0) =>
    /\ ~Succeeded(llmLast)
    /\ llmSent'[Len(llmSent')] = llmSent[Len(llmSent)] => RetryableEnd(llmLast)

\* C40: executeWithRetry sends a model at most maxRetries + 1 requests,
\* network errors and retryable statuses counted together, and none after
\* a status that is not retryable; createMessage tries the primary and then
\* each fallback once, in order, and stops at the first success; and the
\* call ends with a response or a thrown error.
C40_RetriesBounded ==
  /\ [](C40_Bounded)
  /\ [][C40_Step]_vars
  /\ ((llmPc = "fetching") ~> (llmPc \in {"returned", "threw"}))

\* The primary used up its retries on a network error and a 429 mixed, the
\* fallback answered.
C40_Witness ==
  /\ llmPc = "returned"
  /\ llmMaxRetries = 1
  /\ Len(llmModels) = 2
  /\ llmSent = <<llmModels[1], llmModels[1], llmModels[2]>>
  /\ llmFallbacks[1] = llmModel

====
